---- MODULE Spec2Model ----
(***************************************************************************)
(* GhostVaultRS: the reconciliation and reward-lifecycle tracker.          *)
(*                                                                         *)
(* Amounts are integers in units of 10^5 satoshi (0.001 GHOST), so that    *)
(* 100.00500000 GHOST is 100005.  Sequences of the node's JSON arrays are  *)
(* TLA+ sequences; At(s, i) reads them with the source's 0-based index.    *)
(***************************************************************************)
EXTENDS Integers, Sequences, FiniteSets, TLC

VARIABLES
    rpc_tx,        \* get_block_reward: the decoded transaction the node returns
    rpc_height,    \* get_block_reward: the height argument
    block_reward,  \* get_block_reward: the returned BlockReward, or NoReward
    db,            \* GVDB: the trees of the sled database
    daemon_state,  \* DaemonState: the in-memory flags and best block of the server
    node,          \* ghostd: chain height, whether it runs, fate of the wallet txs
    gv_server,     \* GvCLIServer: whether it serves, tg_bot_active, its handlers' positions
    sched,         \* task_runner: the clock, the spawned callbacks, the running payouts
    last_call,     \* what the handler of the last step did
    gv_config,     \* GVConfig: the settings of the vault
    reply,         \* what the last request returned to its caller
    bot_runner,    \* BotRunner::background_task: the pending record it has read
    wallet         \* ghostd's wallet: the anon unspent outputs, the sendtypeto calls

reward_vars == <<rpc_tx, rpc_height, block_reward>>
client_vars == <<gv_config, reply, bot_runner, wallet>>
vault_vars == <<db, daemon_state, node, gv_server, sched, last_call, gv_config, reply,
                bot_runner, wallet>>
vars == <<rpc_tx, rpc_height, block_reward, db, daemon_state, node, gv_server, sched,
          last_call, gv_config, reply, bot_runner, wallet>>

(***************************************************************************)
(* Bounds of the model.                                                    *)
(***************************************************************************)
MaxVin == 2
MaxVout == 3
WordBits == 20
MaxAllTime == 8
MaxTime == 4
MaxCallbacks == 2
MaxPayouts == 2
RewardInterval == 2
MaxStops == 2

(***************************************************************************)
(* constants.rs                                                            *)
(***************************************************************************)
AGVR_ACTIVATION_HEIGHT == 591621

DEV_FUND_ADDRESS ==
    { "GgtiuDqVxAzg47yW7oSMmophe3tU8qoE1f",
      "GQJ4unJi6hAzd881YM17rEzPNWaWZ4AR3f",
      "Ga7ECMeX8QUJTTvf9VUnYgTQUFxPChDqqU",
      "GQtToV2LnHGhHy4LRVapLDMaukdDgzZZZV",
      "GSo4N8Q4QTHoC2eWnDQkm86Vs1FhcMGE3Y" }

(***************************************************************************)
(* u64 arithmetic.  The width of the model's word is WordBits; a debug     *)
(* build (overflow checks on) panics where a release build wraps.          *)
(***************************************************************************)
U64_MODULUS == 2 ^ WordBits

At(s, i) == s[i + 1]

SeqsUpTo(S, n) == UNION { [1..k -> S] : k \in 0..n }

(***************************************************************************)
(* DaemonHelper::get_addr_from_vout: the first address of the output's     *)
(* scriptPubKey, "" when the output has none.                              *)
(***************************************************************************)
get_addr_from_vout(vout) ==
    IF Len(vout.addresses) > 0 THEN vout.addresses[1] ELSE ""

(***************************************************************************)
(* DaemonHelper::get_block_reward, the loop over the inputs.  acc is       *)
(* [in_amount, stake_kernel, panic].  A resolved input adds the value of   *)
(* the previous output and sets stake_kernel when it is still empty; an    *)
(* unresolved input assigns the address of vout_array[1].                  *)
(***************************************************************************)
RECURSIVE vin_loop(_, _, _, _)
vin_loop(tx_vin, i, vout_array, acc) ==
    IF i > Len(tx_vin) \/ acc.panic THEN acc
    ELSE LET vin == tx_vin[i] IN
         IF vin.prev_ok
         THEN vin_loop(tx_vin, i + 1, vout_array,
                  [acc EXCEPT !.in_amount = @ + vin.valueSat,
                              !.stake_kernel =
                                  IF @ = "" THEN get_addr_from_vout(vin) ELSE @])
         ELSE IF Len(vout_array) < 2
              THEN [acc EXCEPT !.panic = TRUE]
              ELSE vin_loop(tx_vin, i + 1, vout_array,
                       [acc EXCEPT !.stake_kernel =
                                       get_addr_from_vout(At(vout_array, 1))])

(***************************************************************************)
(* get_block_reward: eligibility for the secondary (AGVR) reward.          *)
(***************************************************************************)
is_agvr(vout_array, height) ==
    IF height < AGVR_ACTIVATION_HEIGHT
    THEN FALSE
    ELSE ~At(vout_array, 0).gvr_fund_cfwd

(***************************************************************************)
(* get_block_reward: the index of the output that carries the secondary    *)
(* reward.                                                                 *)
(***************************************************************************)
agvr_vout_swapped(vout_addr, stake_kernel) ==
    IF vout_addr = stake_kernel THEN 2 ELSE 1

agvr_vout(vout_addr, stake_kernel) ==
    IF vout_addr = stake_kernel THEN 1 ELSE 2

(***************************************************************************)
(* get_block_reward: whether the output loop adds an output to vout_total. *)
(***************************************************************************)
blacklist_type == { "data", "anon", "blind" }

vout_counted_with_dev_fund(vout) ==
    vout.type \notin blacklist_type

vout_counted(vout) ==
    /\ vout.type \notin blacklist_type
    /\ get_addr_from_vout(vout) \notin DEV_FUND_ADDRESS

(***************************************************************************)
(* get_block_reward, the loop over the outputs.  acc is                    *)
(* [vout_total, is_coldstake, panic]; a counted output without valueSat    *)
(* panics on the unwrap.                                                   *)
(***************************************************************************)
RECURSIVE vout_loop(_, _, _)
vout_loop(vout_array, i, acc) ==
    IF i > Len(vout_array) \/ acc.panic THEN acc
    ELSE LET vout == vout_array[i] IN
         IF ~vout_counted(vout)
         THEN vout_loop(vout_array, i + 1, acc)
         ELSE IF ~vout.has_valueSat
              THEN [acc EXCEPT !.panic = TRUE]
              ELSE vout_loop(vout_array, i + 1,
                       [acc EXCEPT !.vout_total = @ + vout.valueSat,
                                   !.is_coldstake = @ \/ vout.stakeaddresses])

Panicked == [status |-> "panic"]

(***************************************************************************)
(* DaemonHelper::get_block_reward.  overflow_checks tells the build apart: *)
(* with the checks an underflowing subtraction or overflowing addition     *)
(* panics, without them it wraps.                                          *)
(***************************************************************************)
get_block_reward(tx, height, overflow_checks) ==
    LET vout_array == tx.vout
        ins == vin_loop(tx.vin, 1, vout_array,
                        [in_amount |-> 0, stake_kernel |-> "", panic |-> FALSE])
    IN
    IF ins.panic THEN Panicked
    ELSE IF height >= AGVR_ACTIVATION_HEIGHT /\ Len(vout_array) < 1 THEN Panicked
    ELSE
    LET eligible == is_agvr(vout_array, height)
        idx == IF eligible /\ Len(vout_array) >= 2
               THEN agvr_vout(get_addr_from_vout(At(vout_array, 1)), ins.stake_kernel)
               ELSE 0
    IN
    IF eligible /\ (Len(vout_array) < 2 \/ Len(vout_array) < idx + 1) THEN Panicked
    ELSE IF eligible /\ ~At(vout_array, idx).has_valueSat THEN Panicked
    ELSE
    LET agvr_reward == IF eligible THEN At(vout_array, idx).valueSat ELSE 0
        outs == vout_loop(vout_array, 1,
                          [vout_total |-> 0, is_coldstake |-> FALSE, panic |-> FALSE])
    IN
    IF outs.panic THEN Panicked
    ELSE
    LET diff == outs.vout_total - ins.in_amount - agvr_reward
        stake_reward == diff % U64_MODULUS
        total == agvr_reward + stake_reward
    IN
    IF overflow_checks /\ (diff < 0 \/ total >= U64_MODULUS) THEN Panicked
    ELSE [ status |-> "ok",
           total_reward |-> total % U64_MODULUS,
           stake_reward |-> stake_reward,
           agvr_reward |-> agvr_reward,
           stake_kernel |-> ins.stake_kernel,
           is_coldstake |-> outs.is_coldstake ]

(***************************************************************************)
(* The transactions the node may return for a stake.                       *)
(***************************************************************************)
KernelAddr == "GKernelAddr"
OtherAddr == "GOtherAddr"
DevAddr == "GgtiuDqVxAzg47yW7oSMmophe3tU8qoE1f"

Vin(ok, value, addrs) ==
    [prev_ok |-> ok, valueSat |-> value, addresses |-> addrs]

Vout(type, addrs, hasv, value, cold, cfwd) ==
    [ type |-> type, addresses |-> addrs, has_valueSat |-> hasv, valueSat |-> value,
      stakeaddresses |-> cold, gvr_fund_cfwd |-> cfwd ]

VinPool ==
    { Vin(TRUE, 60000, <<KernelAddr>>),
      Vin(TRUE, 40000, <<KernelAddr>>),
      Vin(TRUE, 40000, <<OtherAddr>>),
      Vin(FALSE, 0, <<>>) }

VoutPool ==
    { Vout("data", <<>>, FALSE, 0, FALSE, TRUE),
      Vout("data", <<>>, FALSE, 0, FALSE, FALSE),
      Vout("standard", <<KernelAddr>>, TRUE, 100005, FALSE, FALSE),
      Vout("standard", <<KernelAddr>>, TRUE, 7, FALSE, FALSE),
      Vout("standard", <<OtherAddr>>, TRUE, 100005, TRUE, FALSE),
      Vout("standard", <<DevAddr>>, TRUE, 1, FALSE, FALSE),
      Vout("anon", <<>>, FALSE, 0, FALSE, FALSE) }

Heights ==
    { AGVR_ACTIVATION_HEIGHT - 1, AGVR_ACTIVATION_HEIGHT, AGVR_ACTIVATION_HEIGHT + 1 }

NoReward == [status |-> "none"]

ExampleTx ==
    [ vin |-> << Vin(TRUE, 60000, <<KernelAddr>>), Vin(TRUE, 40000, <<KernelAddr>>) >>,
      vout |-> << Vout("standard", <<KernelAddr>>, TRUE, 100005, FALSE, FALSE),
                  Vout("standard", <<DevAddr>>, TRUE, 1, FALSE, FALSE),
                  Vout("anon", <<>>, FALSE, 0, FALSE, FALSE) >> ]

(***************************************************************************)
(* gvdb.rs.  A sled tree is a function from its keys; insert overwrites.   *)
(* An Option is "None" or the value ("Some" for a Telegram message id).    *)
(***************************************************************************)
EmptyTree == [k \in {} |-> 0]

Put(tree, key, value) ==
    [k \in DOMAIN tree \cup {key} |-> IF k = key THEN value ELSE tree[k]]

Del(tree, key) == [k \in DOMAIN tree \ {key} |-> tree[k]]

set_reward(d, reward) ==
    [d EXCEPT !.rewards_ts_index = Put(@, reward.timestamp, reward)]

remove_reward_skipped(d, key) == d

remove_reward(d, key) == [d EXCEPT !.rewards_ts_index = Del(@, key)]

set_new_stake_status(d, key, status) ==
    [d EXCEPT !.new_stake_status = Put(@, key, status)]

remove_new_stake_status(d, key) == [d EXCEPT !.new_stake_status = Del(@, key)]

set_zap_status(d, key, zap_status) ==
    [d EXCEPT !.zap_status_db = Put(@, key, zap_status)]

remove_zap_status(d, key) == [d EXCEPT !.zap_status_db = Del(@, key)]

set_tg_bot_queue(d, key, task) == [d EXCEPT !.tg_bot_queue = Put(@, key, task)]

set_daemon_status(d, height, block_hash) ==
    [d EXCEPT !.daemon_status_db = [height |-> height, block_hash |-> block_hash]]

set_server_ready(d, daemon_ready, reason) ==
    [d EXCEPT !.server_ready_db =
                  [ready |-> @.ready, daemon_ready |-> daemon_ready, reason |-> reason]]

(***************************************************************************)
(* The messages of the notification queue (TgBotQueueDB).  A message that  *)
(* is not about one transaction is keyed by the second it was made in;     *)
(* TimeKey stands for that key.                                            *)
(***************************************************************************)
TgMsg(msg_type, header, reward_txid, msg_to_delete) ==
    [ msg_type |-> msg_type, header |-> header,
      reward_txid |-> reward_txid, msg_to_delete |-> msg_to_delete ]

NewBlockFound(txid) == TgMsg("stake", "New Block Found!", txid, "None")
ZapNowStaking == TgMsg("zap", "Zap Now Staking!", "None", "None")
NewZapDetected == TgMsg("zap", "New Zap Detected!", "None", "None")
StakeRemoved(tg_msg_id) == TgMsg("stake_removal", "Stake removed!", "None", tg_msg_id)
UpdateInProgress == TgMsg("update", "Daemon update in progress!", "None", "None")
UpdateComplete == TgMsg("update", "Daemon update complete!", "None", "None")
TimeKey == "time"

(***************************************************************************)
(* The wallet of the node.  The chain starts one block below the           *)
(* activation height.  A transaction is "ok", "orphaned" by a              *)
(* reorganisation (a stake turns into an orphaned_stake, a deposit gets -1 *)
(* confirmations) or "gone": not, or no longer, in the wallet              *)
(* (gettransaction fails).  Amounts of the wallet RPC are in whole coins.  *)
(***************************************************************************)
StartHeight == AGVR_ACTIVATION_HEIGHT - 1
SatPerCoin == 1000

block_hash_of(height) == ToString(height)

TxOrder == << "s1", "s2", "z1" >>
Txids == { TxOrder[i] : i \in DOMAIN TxOrder }

DecodedTx ==
    [ s1 |-> [ vin |-> << Vin(TRUE, 60000, <<KernelAddr>>),
                          Vin(TRUE, 40000, <<KernelAddr>>) >>,
               vout |-> << Vout("data", <<>>, FALSE, 0, FALSE, FALSE),
                           Vout("standard", <<KernelAddr>>, TRUE, 7, FALSE, FALSE),
                           Vout("standard", <<KernelAddr>>, TRUE, 100005, FALSE, FALSE),
                           Vout("standard", <<DevAddr>>, TRUE, 1, FALSE, FALSE) >> ],
      s2 |-> [ vin |-> << Vin(TRUE, 40000, <<KernelAddr>>) >>,
               vout |-> << Vout("data", <<>>, FALSE, 0, FALSE, TRUE),
                           Vout("standard", <<OtherAddr>>, TRUE, 40003, TRUE, FALSE) >> ] ]

WalletTx ==
    [ s1 |-> [ category |-> "stake", blockheight |-> StartHeight + 1, blocktime |-> 10,
               involvesWatchonly |-> TRUE, amount |-> 0 ],
      s2 |-> [ category |-> "stake", blockheight |-> StartHeight + 2, blocktime |-> 20,
               involvesWatchonly |-> TRUE, amount |-> 0 ],
      z1 |-> [ category |-> "receive", blockheight |-> StartHeight + 1, blocktime |-> 10,
               involvesWatchonly |-> TRUE, amount |-> 2 ] ]

(***************************************************************************)
(* The numbers of confirmations at which the vault treats a transaction    *)
(* differently (a stake up to 100 and above, a deposit below 225, at 225   *)
(* and above), and the heights at which a transaction has that many: the   *)
(* model's chain moves from one such height to the next.                   *)
(***************************************************************************)
Milestones(txid) ==
    IF WalletTx[txid].category = "stake" THEN {1, 100, 101} ELSE {1, 224, 225, 226}

MilestoneHeights(txid) ==
    { WalletTx[txid].blockheight + c - 1 : c \in Milestones(txid) }

Tips == {StartHeight} \cup UNION { MilestoneHeights(t) : t \in Txids }

RpcError == [ok |-> FALSE]

in_wallet(nd, txid) ==
    nd.fate[txid] # "gone" /\ WalletTx[txid].blockheight <= nd.blocks

wallet_entry(nd, txid) ==
    LET wtx == WalletTx[txid]
        orphaned == nd.fate[txid] = "orphaned"
    IN [ txid |-> txid,
         category |-> IF orphaned /\ wtx.category = "stake"
                      THEN "orphaned_stake" ELSE wtx.category,
         confirmations |-> IF orphaned THEN -1 ELSE nd.blocks - wtx.blockheight + 1,
         blocktime |-> wtx.blocktime,
         blockheight |-> wtx.blockheight,
         involvesWatchonly |-> wtx.involvesWatchonly,
         amount |-> wtx.amount,
         has_trusted |-> orphaned,
         trusted |-> ~orphaned ]

(***************************************************************************)
(* DaemonHelper::get_transaction: "gettransaction <txid> true true".       *)
(***************************************************************************)
get_transaction(nd, txid) ==
    IF ~in_wallet(nd, txid) THEN RpcError
    ELSE LET e == wallet_entry(nd, txid) IN
         [ ok |-> TRUE, txid |-> txid, confirmations |-> e.confirmations,
           blocktime |-> e.blocktime, blockheight |-> e.blockheight,
           details |-> << e >> ]

(***************************************************************************)
(* "listsinceblock <hash> 1 true": the wallet's transactions in the blocks *)
(* after <hash>, in wallet order; an error when the node does not know the *)
(* hash.  "filtertransactions" with sort "confirmations": all of them,     *)
(* most confirmations first.                                               *)
(***************************************************************************)
RECURSIVE sort_by_key(_)
sort_by_key(s) ==
    IF Len(s) <= 1 THEN s
    ELSE LET x == Head(s)
             rest == sort_by_key(Tail(s))
         IN SelectSeq(rest, LAMBDA e : e.confirmations < x.confirmations)
              \o << x >>
              \o SelectSeq(rest, LAMBDA e : e.confirmations >= x.confirmations)

rev(s) == [i \in 1..Len(s) |-> s[Len(s) + 1 - i]]

listsinceblock(nd, block_hash) ==
    LET known == { h \in Tips : h <= nd.blocks /\ block_hash_of(h) = block_hash } IN
    IF known = {} THEN RpcError
    ELSE LET since == CHOOSE h \in known : TRUE
             listed == SelectSeq(TxOrder, LAMBDA t :
                           in_wallet(nd, t) /\ WalletTx[t].blockheight > since)
         IN [ ok |-> TRUE,
              transactions |-> [i \in DOMAIN listed |-> wallet_entry(nd, listed[i])] ]

filtertransactions(nd) ==
    LET listed == SelectSeq(TxOrder, LAMBDA t : in_wallet(nd, t))
    IN rev(sort_by_key([i \in DOMAIN listed |-> wallet_entry(nd, listed[i])]))

(***************************************************************************)
(* DaemonHelper::convert_to_sat.                                           *)
(***************************************************************************)
convert_to_sat(value) == (value * SatPerCoin) % U64_MODULUS

(***************************************************************************)
(* process_stake_transaction: the cumulative totals of the new record are  *)
(* those of the last record of the ledger (greatest timestamp key) plus    *)
(* the rewards of the stake, or the rewards alone on an empty ledger.      *)
(***************************************************************************)
all_time_from_nothing(tree, reward, agvr_reward) == << reward, agvr_reward >>

all_time(tree, reward, agvr_reward) ==
    IF DOMAIN tree = {} THEN << reward, agvr_reward >>
    ELSE LET last_key == CHOOSE k \in DOMAIN tree : \A j \in DOMAIN tree : j <= k
             stake_info == tree[last_key]
         IN << (stake_info.all_time_reward + reward) % U64_MODULUS,
               (stake_info.all_time_agvr_reward + agvr_reward) % U64_MODULUS >>

(***************************************************************************)
(* DaemonHelper::process_stake_transaction, on a transaction as returned   *)
(* by gettransaction, listsinceblock or filtertransactions.  The result    *)
(* is [db, reward, panic]; both unwraps that can fail come before the      *)
(* first write.  The arithmetic is that of a release build.                *)
(***************************************************************************)
process_stake_transaction(d, tx) ==
    LET pending(d0) ==
            IF tx.confirmations <= 100
            THEN set_new_stake_status(d0, tx.txid,
                     [ txid |-> tx.txid, timestamp |-> tx.blocktime,
                       confirmations |-> tx.confirmations, tg_msg_id |-> "None" ])
            ELSE d0
        written(final_reward) ==
            [db |-> set_reward(pending(d), final_reward), reward |-> final_reward,
             panic |-> FALSE]
        record(block_reward_details, totals) ==
            [ height |-> tx.blockheight,
              timestamp |-> tx.blocktime,
              block_hash |-> block_hash_of(tx.blockheight),
              txid |-> tx.txid,
              reward |-> block_reward_details.stake_reward,
              agvr_reward |-> block_reward_details.agvr_reward,
              all_time_reward |-> totals[1],
              all_time_agvr_reward |-> totals[2],
              address |-> block_reward_details.stake_kernel,
              is_coldstake |-> block_reward_details.is_coldstake ]
        ingest(block_reward_details) ==
            IF block_reward_details.status # "ok" \/ tx.confirmations < 0
            THEN [db |-> d, reward |-> NoReward, panic |-> TRUE]
            ELSE written(record(block_reward_details,
                                all_time(d.rewards_ts_index,
                                         block_reward_details.stake_reward,
                                         block_reward_details.agvr_reward)))
    IN ingest(get_block_reward(DecodedTx[tx.txid], tx.blockheight, FALSE))

(***************************************************************************)
(* DaemonHelper::process_received_tx.                                      *)
(***************************************************************************)
process_received_tx(d, tx) ==
    IF tx.category # "receive" THEN d
    ELSE IF tx.confirmations > 225 \/ tx.confirmations < 0 THEN d
    ELSE IF tx.txid \in DOMAIN d.zap_status_db THEN d
    ELSE set_zap_status(d, tx.txid,
             [ txid |-> tx.txid, amount |-> convert_to_sat(tx.amount),
               confirmations |-> tx.confirmations, first_notice |-> FALSE ])

(***************************************************************************)
(* The loop of cleanup_missing_tx over the listed transactions and the     *)
(* loop of import_legacy_history (legacy): the first skips an entry that   *)
(* is not trusted, the second one with negative confirmations.  The        *)
(* result is [db, panic].                                                  *)
(***************************************************************************)
RECURSIVE import_loop(_, _, _, _)
import_loop(d, tx_array, i, legacy) ==
    LET next(d0) == import_loop(d0, tx_array, i + 1, legacy)
        after_stake(staked) ==
            IF staked.panic THEN [db |-> staked.db, panic |-> TRUE]
            ELSE next(staked.db)
        entry(tx) ==
            IF (legacy /\ tx.confirmations < 0)
                  \/ (~legacy /\ tx.has_trusted /\ ~tx.trusted)
            THEN next(d)
            ELSE IF tx.category = "stake"
            THEN after_stake(process_stake_transaction(d, tx))
            ELSE IF tx.category = "receive" /\ tx.involvesWatchonly
            THEN next(process_received_tx(d, tx))
            ELSE next(d)
    IN IF i > Len(tx_array) THEN [db |-> d, panic |-> FALSE]
       ELSE entry(tx_array[i])

(***************************************************************************)
(* cleanup_missing_tx, the loop over zap_status_db in key order: a record  *)
(* whose transaction cannot be fetched or has more than 225 confirmations  *)
(* is removed; negative confirmations fail the as_u64 unwrap.              *)
(***************************************************************************)
RECURSIVE cleanup_zap_loop(_, _, _)
cleanup_zap_loop(d, nd, i) ==
    LET next(d0) == cleanup_zap_loop(d0, nd, i + 1)
        entry(key, zap_item, tx) ==
            IF ~tx.ok THEN next(remove_zap_status(d, key))
            ELSE IF tx.confirmations < 0 THEN [db |-> d, panic |-> TRUE]
            ELSE IF tx.confirmations > 225 THEN next(remove_zap_status(d, key))
            ELSE next(set_zap_status(d, key,
                          [zap_item EXCEPT !.confirmations = tx.confirmations]))
    IN IF i > Len(TxOrder) THEN [db |-> d, panic |-> FALSE]
       ELSE IF TxOrder[i] \notin DOMAIN d.zap_status_db THEN next(d)
       ELSE entry(TxOrder[i], d.zap_status_db[TxOrder[i]],
                  get_transaction(nd, d.zap_status_db[TxOrder[i]].txid))

(***************************************************************************)
(* DaemonHelper::cleanup_missing_tx.  The result is [db, panic]; the       *)
(* checkpoint is set to the node's best block at the end.                  *)
(***************************************************************************)
cleanup_missing_tx(d, nd) ==
    LET checkpointed(zapped) ==
            IF zapped.panic THEN zapped
            ELSE [ db |-> set_daemon_status(zapped.db, nd.blocks,
                                            block_hash_of(nd.blocks)),
                   panic |-> FALSE ]
        cleaned(imported) ==
            IF imported.panic THEN imported
            ELSE checkpointed(cleanup_zap_loop(imported.db, nd, 1))
        listed(res) ==
            IF ~res.ok THEN [db |-> d, panic |-> FALSE]
            ELSE import_loop(d, rev(sort_by_key(res.transactions)), 1, FALSE)
    IN cleaned(IF d.daemon_status_db.block_hash = "None"
               THEN import_loop(d, filtertransactions(nd), 1, TRUE)
               ELSE listed(listsinceblock(nd, d.daemon_status_db.block_hash)))

(***************************************************************************)
(* GvCLIServer::new_wallet_tx, zap branch: the loop over the details adds  *)
(* each watch-only receive to the running amount and converts the running  *)
(* amount.  acc is [is_incoming_zap, amount, amount_int].                  *)
(***************************************************************************)
RECURSIVE zap_amount_loop(_, _, _)
zap_amount_loop(tx_io, i, acc) ==
    IF i > Len(tx_io) THEN acc
    ELSE LET tx == tx_io[i] IN
         IF tx.involvesWatchonly /\ tx.category = "receive"
         THEN LET amount == acc.amount + tx.amount IN
              zap_amount_loop(tx_io, i + 1,
                  [ is_incoming_zap |-> TRUE, amount |-> amount,
                    amount_int |-> (acc.amount_int + convert_to_sat(amount))
                                       % U64_MODULUS ])
         ELSE zap_amount_loop(tx_io, i + 1, acc)

(***************************************************************************)
(* GvCLIServer::new_wallet_tx for the vault's wallet.  The result is       *)
(* [db, panic].  A stake is ingested, its pending record is (re)written    *)
(* with one confirmation and, with the bot, a notification is queued       *)
(* under the txid unless one is queued there.  A deposit with fewer than   *)
(* 225 confirmations that is not tracked gets a zap record and, with the   *)
(* bot, its first notice.                                                  *)
(***************************************************************************)
new_wallet_tx_details(d, tg_bot_active, txid, answer) ==
    LET notify_stake(d1, reward) ==
            IF tg_bot_active /\ txid \notin DOMAIN d1.tg_bot_queue
            THEN set_tg_bot_queue(d1, txid, NewBlockFound(reward.txid))
            ELSE d1
        after_stake(staked) ==
            IF staked.panic THEN [db |-> staked.db, panic |-> TRUE]
            ELSE [ db |-> notify_stake(
                              set_new_stake_status(staked.db, txid,
                                  [ txid |-> txid, confirmations |-> 1,
                                    timestamp |-> staked.reward.timestamp,
                                    tg_msg_id |-> "None" ]),
                              staked.reward),
                   panic |-> FALSE ]
        notify_zap(d1, zap_status) ==
            IF tg_bot_active /\ txid \notin DOMAIN d1.tg_bot_queue
            THEN set_zap_status(set_tg_bot_queue(d1, txid, NewZapDetected), txid,
                     [zap_status EXCEPT !.first_notice = TRUE])
            ELSE d1
        track(zap_status) == notify_zap(set_zap_status(d, txid, zap_status), zap_status)
        after_zap(zap, confirms) ==
            IF ~zap.is_incoming_zap \/ confirms < 0 \/ confirms >= 225
                  \/ txid \in DOMAIN d.zap_status_db
            THEN [db |-> d, panic |-> FALSE]
            ELSE [ db |-> track([ txid |-> txid, amount |-> zap.amount_int,
                                  confirmations |-> confirms, first_notice |-> FALSE ]),
                   panic |-> FALSE ]
        handle(tx_details) ==
            IF ~tx_details.ok THEN [db |-> d, panic |-> TRUE]
            ELSE IF Len(tx_details.details) = 0 THEN [db |-> d, panic |-> FALSE]
            ELSE IF At(tx_details.details, 0).category = "stake"
            THEN after_stake(process_stake_transaction(d, tx_details))
            ELSE after_zap(zap_amount_loop(tx_details.details, 1,
                               [is_incoming_zap |-> FALSE, amount |-> 0,
                                amount_int |-> 0]),
                           tx_details.confirmations)
    IN handle(answer)

new_wallet_tx_handler(d, nd, tg_bot_active, txid) ==
    new_wallet_tx_details(d, tg_bot_active, txid, get_transaction(nd, txid))

(***************************************************************************)
(* process_zap_status at 225 or more confirmations: whether the "now       *)
(* staking" notification is queued.                                        *)
(***************************************************************************)
queue_now_staking_always(tg_bot_active, in_tg_queue) == TRUE

queue_now_staking(tg_bot_active, in_tg_queue) == tg_bot_active /\ ~in_tg_queue

(***************************************************************************)
(* process_zap_status below 225 confirmations: whether the "new zap        *)
(* detected" notification is queued and first_notice set.                  *)
(***************************************************************************)
first_notice_due_again(tg_bot_active, first_notice, in_msg_que) ==
    tg_bot_active /\ ~in_msg_que

first_notice_due(tg_bot_active, first_notice, in_msg_que) ==
    tg_bot_active /\ ~first_notice /\ ~in_msg_que

(***************************************************************************)
(* GvCLIServer::process_zap_status: the loop over zap_status_db in key     *)
(* order.  The result is [db, panic]; the unwrap of get_transaction        *)
(* panics when the transaction cannot be fetched.                          *)
(***************************************************************************)
RECURSIVE process_zap_status(_, _, _, _)
process_zap_status(d, nd, tg_bot_active, i) ==
    LET next(d0) == process_zap_status(d0, nd, tg_bot_active, i + 1)
        noticed(d0, key, zap_status, confirms, notice) ==
            next(set_zap_status(
                     IF notice THEN set_tg_bot_queue(d0, zap_status.txid, NewZapDetected)
                     ELSE d0,
                     key,
                     [zap_status EXCEPT !.confirmations = confirms,
                                        !.first_notice = @ \/ notice]))
        entry(key, zap_status, tx_details, in_tg_queue) ==
            IF ~tx_details.ok THEN [db |-> d, panic |-> TRUE]
            ELSE IF tx_details.confirmations < 0 THEN next(remove_zap_status(d, key))
            ELSE IF tx_details.confirmations >= 225
            THEN next(remove_zap_status(
                          IF queue_now_staking(tg_bot_active, in_tg_queue)
                          THEN set_tg_bot_queue(d, key, ZapNowStaking)
                          ELSE d,
                          key))
            ELSE noticed(d, key, zap_status, tx_details.confirmations,
                         first_notice_due(tg_bot_active, zap_status.first_notice,
                                          in_tg_queue))
    IN IF i > Len(TxOrder) THEN [db |-> d, panic |-> FALSE]
       ELSE IF TxOrder[i] \notin DOMAIN d.zap_status_db THEN next(d)
       ELSE entry(TxOrder[i], d.zap_status_db[TxOrder[i]],
                  get_transaction(nd, d.zap_status_db[TxOrder[i]].txid),
                  TxOrder[i] \in DOMAIN d.tg_bot_queue)

(***************************************************************************)
(* process_rewards_status: the number of confirmations at which a pending  *)
(* stake has matured.                                                      *)
(***************************************************************************)
stake_matured_at_100(confirms) == confirms >= 100

stake_matured(confirms) == confirms > 100

(***************************************************************************)
(* GvCLIServer::process_rewards_status: the loop over new_stake_status in  *)
(* key order.  The result is [db, flushes], flushes counting the calls of  *)
(* do_flush_rewards_to_anon.                                               *)
(***************************************************************************)
RECURSIVE process_rewards_status(_, _, _, _, _)
process_rewards_status(d, nd, tg_bot_active, i, flushes) ==
    LET next(d0, n) == process_rewards_status(d0, nd, tg_bot_active, i + 1, n)
        removed(key, stake_status) ==
            remove_reward(remove_new_stake_status(d, key), stake_status.timestamp)
        removal_queued(d1, stake_status) ==
            IF tg_bot_active
            THEN set_tg_bot_queue(d1, TimeKey, StakeRemoved(stake_status.tg_msg_id))
            ELSE d1
        entry(key, stake_status, tx_details) ==
            IF ~tx_details.ok THEN next(removed(key, stake_status), flushes)
            ELSE IF Len(tx_details.details) = 0
                       \/ At(tx_details.details, 0).category # "stake"
            THEN next(removal_queued(removed(key, stake_status), stake_status), flushes)
            ELSE IF stake_matured(tx_details.confirmations)
            THEN next(remove_new_stake_status(d, key), flushes + 1)
            ELSE next(set_new_stake_status(d, key,
                          [stake_status EXCEPT
                               !.confirmations = tx_details.confirmations]),
                      flushes)
    IN IF i > Len(TxOrder) THEN [db |-> d, flushes |-> flushes]
       ELSE IF TxOrder[i] \notin DOMAIN d.new_stake_status THEN next(d, flushes)
       ELSE entry(TxOrder[i], d.new_stake_status[TxOrder[i]],
                  get_transaction(nd, d.new_stake_status[TxOrder[i]].txid))

(***************************************************************************)
(* GvCLIServer::daemon_ready, on the in-memory DaemonState.                *)
(***************************************************************************)
daemon_ready(ds) == ds.online /\ ds.synced /\ ds.good_chain /\ ds.available

(***************************************************************************)
(* GvCLIServer::new_block, the guard on the delivered hash.                *)
(***************************************************************************)
is_new_hash_always(new_block, best_block_hash) == TRUE

is_new_hash(new_block, best_block_hash) == new_block # best_block_hash

(***************************************************************************)
(* What a handler did, for last_call.                                      *)
(***************************************************************************)
Call(op, arg, checkpoint, zap_pass, stake_pass, flushes, panic) ==
    [ op |-> op, arg |-> arg, checkpoint |-> checkpoint, zap_pass |-> zap_pass,
      stake_pass |-> stake_pass, flushes |-> flushes, panic |-> panic ]

NoCall == Call("none", "", FALSE, FALSE, FALSE, 0, FALSE)

(***************************************************************************)
(* GvCLIServer::new_block.  The result is [db, daemon_state, call].  The   *)
(* checkpoint is written first; the passes run when the in-memory state    *)
(* is ready; a panic of the zap pass leaves the DaemonState as it was.     *)
(***************************************************************************)
new_block_handler(d, ds, nd, tg_bot_active, new_block, is_syncing) ==
    LET block_height == CHOOSE h \in Tips : block_hash_of(h) = new_block
        is_ready == daemon_ready(ds)
        done(zapped, staked) ==
            [ db |-> staked.db,
              daemon_state |-> IF zapped.panic THEN ds
                               ELSE [ds EXCEPT !.best_block = block_height,
                                               !.best_block_hash = new_block,
                                               !.synced = ~is_syncing,
                                               !.cycle = ds.cycle + 1],
              call |-> Call("new_block", new_block, TRUE, is_ready,
                            is_ready /\ ~zapped.panic, staked.flushes, zapped.panic) ]
        after_zaps(zapped) ==
            done(zapped,
                 IF is_ready /\ ~zapped.panic
                 THEN process_rewards_status(zapped.db, nd, tg_bot_active, 1, 0)
                 ELSE [db |-> zapped.db, flushes |-> 0])
        after_checkpoint(d1) ==
            after_zaps(IF is_ready THEN process_zap_status(d1, nd, tg_bot_active, 1)
                       ELSE [db |-> d1, panic |-> FALSE])
    IN IF ~is_new_hash(new_block, ds.best_block_hash)
       THEN [ db |-> d, daemon_state |-> ds,
              call |-> Call("new_block", new_block, FALSE, FALSE, FALSE, 0, FALSE) ]
       ELSE after_checkpoint(set_daemon_status(d, block_height, new_block))

(***************************************************************************)
(* task_runner.rs, for the process_rewards task.  Time is counted in       *)
(* periods of the scheduler's loop (10 s).  A callback spawned by the loop *)
(* is [id, pc, task_details], task_details being its own copy of the       *)
(* Task; sched.payouts counts the do_reward_payout runs in progress.       *)
(***************************************************************************)
ProcessRewards == "process_rewards"

DEFAULT_MIN_PAYOUT == SatPerCoin \div 10

MIN_TX_VALUE == SatPerCoin \div 10

InitTask ==
    [ id |-> 2, name |-> ProcessRewards, run_interval |-> RewardInterval, next_run |-> 0,
      min_payout |-> DEFAULT_MIN_PAYOUT, task_running |-> FALSE ]

InitSched == [now |-> 0, callbacks |-> {}, payouts |-> 0]

set_task(d, key, task) == [d EXCEPT !.task_queue = Put(@, key, task)]

toggle_running(task_details) ==
    [task_details EXCEPT !.task_running = ~task_details.task_running]

(***************************************************************************)
(* The vault after its first start next to a node at StartHeight with an   *)
(* empty wallet: GvCLIServer::new has built the DaemonState and run        *)
(* cleanup_missing_tx on the empty database, wait_rpc_server_ready has     *)
(* set the readiness record.                                               *)
(***************************************************************************)
DEFAULT_COLD_WALLET == "GV_COLD"

DEFAULT_HOT_WALLET == "GV_HOT"

InitConfig ==
    [ reward_interval |-> RewardInterval, min_reward_payout |-> DEFAULT_MIN_PAYOUT,
      anon_reward_address |-> "None", rpc_wallet |-> DEFAULT_COLD_WALLET ]

NoReply == [op |-> "none"]

BotIdle == [pc |-> "idle"]

(***************************************************************************)
(* check_chain_task before its first round: the count of bad rounds and    *)
(* the time it sleeps before the next.                                     *)
(***************************************************************************)
check_seconds == 60 * 5

NoChainCheck == [bad_chain_count |-> 0, sleep_time |-> 0]

(***************************************************************************)
(* Where the tasks that GvCLIServer::new spawns are: wait_rpc_server_ready *)
(* connecting or done, listen_zmq and task_runner waiting for the          *)
(* readiness record or past it, and how often this run of the process has  *)
(* called start_server_tasks.  Started is a vault that has come up.        *)
(***************************************************************************)
Started ==
    [ wait_rpc_server_ready |-> "done", listen_zmq |-> "forwarding",
      task_runner |-> "loop", start_server_tasks |-> 1 ]

Starting ==
    [ wait_rpc_server_ready |-> "connecting", listen_zmq |-> "waiting",
      task_runner |-> "waiting", start_server_tasks |-> 0 ]

(***************************************************************************)
(* The reader/writer lock of the configuration (tokio::sync::RwLock, which *)
(* serves its waiters in the order of their requests): how many read       *)
(* guards each handler holds, the handler that holds the write guard, the  *)
(* requests that wait, and where each handler is.                          *)
(***************************************************************************)
ConfigHandlers ==
    {"set_reward_mode", "check_wallets", "set_timezone", "handle_daemon_offline"}

ConfigFree ==
    [ readers |-> [h \in ConfigHandlers |-> 0], writer |-> "None",
      queue |-> <<>>, at |-> [h \in ConfigHandlers |-> "idle"] ]

(***************************************************************************)
(* The wallet of the node as the payouts see it: unspent is the listing    *)
(* of listunspentanon, deposits and next_txid count what it has received,  *)
(* calls are the sendtypeto calls of the last send_ghost or zap_ghost.     *)
(***************************************************************************)
EmptyWallet == [unspent |-> <<>>, deposits |-> 0, next_txid |-> 1, calls |-> <<>>]

NoCheckpoint == [height |-> 0, block_hash |-> "None"]

EmptyDb ==
    [ rewards_ts_index |-> EmptyTree,
      new_stake_status |-> EmptyTree,
      zap_status_db |-> EmptyTree,
      tg_bot_queue |-> EmptyTree,
      task_queue |-> EmptyTree,
      daemon_status_db |-> NoCheckpoint,
      server_ready_db |-> [ready |-> FALSE, daemon_ready |-> FALSE, reason |-> "None"] ]

ServerReady == [ready |-> TRUE, daemon_ready |-> TRUE, reason |-> "None"]

NewDaemonState(nd, is_syncing) ==
    [ online |-> TRUE, synced |-> ~is_syncing, available |-> TRUE, good_chain |-> TRUE,
      best_block |-> nd.blocks, best_block_hash |-> block_hash_of(nd.blocks),
      remote_best_block |-> nd.blocks, remote_best_block_hash |-> block_hash_of(nd.blocks),
      cycle |-> 0 ]

InitNode(wallet_txs) ==
    [ blocks |-> StartHeight, up |-> TRUE, stops |-> 0,
      fate |-> [t \in Txids |-> IF t \in wallet_txs THEN "ok" ELSE "gone"] ]

InitVaultConf(wallet_txs, tg_bot_active, is_docker, conf) ==
    /\ node = InitNode(wallet_txs)
    /\ db = [cleanup_missing_tx(EmptyDb, InitNode(wallet_txs)).db
                 EXCEPT !.server_ready_db = ServerReady,
                        !.task_queue = Put(@, ProcessRewards, InitTask)]
    /\ sched = InitSched
    /\ daemon_state = NewDaemonState(InitNode(wallet_txs), FALSE)
    /\ gv_server = [ up |-> TRUE, tg_bot_active |-> tg_bot_active,
                     is_docker |-> is_docker, new_block |-> {}, check_chain |-> NoChainCheck,
                     startup |-> Started, config |-> ConfigFree,
                     do_update |-> "idle",
                     do_force_resync |-> "idle", import_wallet |-> "idle",
                     handle_daemon_offline |-> "idle" ]
    /\ last_call = NoCall
    /\ gv_config = conf
    /\ reply = NoReply
    /\ bot_runner = BotIdle
    /\ wallet = EmptyWallet

InitVaultIn(wallet_txs, tg_bot_active, is_docker) ==
    InitVaultConf(wallet_txs, tg_bot_active, is_docker, InitConfig)

InitVault(wallet_txs, tg_bot_active) == InitVaultIn(wallet_txs, tg_bot_active, FALSE)

InitRewardVars ==
    /\ rpc_tx = ExampleTx
    /\ rpc_height = AGVR_ACTIVATION_HEIGHT
    /\ block_reward = NoReward

Bounded(d) ==
    \A k \in DOMAIN d.rewards_ts_index :
        d.rewards_ts_index[k].all_time_reward <= MaxAllTime

(***************************************************************************)
(* The node: it connects the next block, a reorganisation orphans a        *)
(* transaction of the wallet, the wallet forgets a transaction.            *)
(***************************************************************************)
node_connect_block ==
    /\ node.up
    /\ LET ahead == { h \in UNION { MilestoneHeights(t) :
                                        t \in { u \in Txids : node.fate[u] # "gone" } } :
                        h > node.blocks }
       IN /\ ahead # {}
          /\ node' = [node EXCEPT !.blocks =
                                      CHOOSE h \in ahead : \A j \in ahead : h <= j]
    /\ last_call' = NoCall
    /\ UNCHANGED <<db, daemon_state, gv_server, reward_vars, client_vars, sched>>

node_reorg(txid) ==
    /\ node.up
    /\ in_wallet(node, txid)
    /\ node.fate[txid] = "ok"
    /\ node' = [node EXCEPT !.fate[txid] = "orphaned"]
    /\ last_call' = NoCall
    /\ UNCHANGED <<db, daemon_state, gv_server, reward_vars, client_vars, sched>>

node_forget(txid) ==
    /\ node.up
    /\ in_wallet(node, txid)
    /\ node' = [node EXCEPT !.fate[txid] = "gone"]
    /\ last_call' = NoCall
    /\ UNCHANGED <<db, daemon_state, gv_server, reward_vars, client_vars, sched>>

(***************************************************************************)
(* listen_zmq delivers a HashWTx or a HashBlock event of the running node  *)
(* to the serving vault, or not when the call fails; an event may be       *)
(* delivered more than once; a block event is for the node's tip or        *)
(* repeats the one for the vault's best block.                             *)
(***************************************************************************)
new_wallet_tx(txid) ==
    LET handled(r) ==
            /\ db' = r.db
            /\ last_call' = Call("new_wallet_tx", txid, FALSE, FALSE, FALSE, 0, r.panic)
    IN /\ gv_server.up /\ node.up
       /\ handled(new_wallet_tx_handler(db, node, gv_server.tg_bot_active, txid))
       /\ Bounded(db')
       /\ UNCHANGED <<daemon_state, node, gv_server, reward_vars, client_vars, sched>>

new_block(height, is_syncing) ==
    LET handled(r) ==
            /\ db' = r.db
            /\ daemon_state' = r.daemon_state
            /\ last_call' = r.call
    IN /\ gv_server.up /\ node.up
       /\ height \in {daemon_state.best_block, node.blocks}
       /\ handled(new_block_handler(db, daemon_state, node, gv_server.tg_bot_active,
                                    block_hash_of(height), is_syncing))
       /\ UNCHANGED <<node, gv_server, reward_vars, client_vars, sched>>

(***************************************************************************)
(* BotRunner::background_task, for one message of the queue: it is sent    *)
(* and removed; the id of a sent stake message is written to the pending   *)
(* record of its stake when there is one.                                  *)
(***************************************************************************)
background_task(key) ==
    /\ gv_server.tg_bot_active
    /\ key \in DOMAIN db.tg_bot_queue
    /\ LET msg_details == db.tg_bot_queue[key]
           d1 == IF msg_details.msg_type = "stake"
                      /\ msg_details.reward_txid \in DOMAIN db.new_stake_status
                 THEN set_new_stake_status(db, msg_details.reward_txid,
                          [db.new_stake_status[msg_details.reward_txid]
                              EXCEPT !.tg_msg_id = "Some"])
                 ELSE db
       IN db' = [d1 EXCEPT !.tg_bot_queue = Del(@, key)]
    /\ last_call' = NoCall
    /\ UNCHANGED <<daemon_state, node, gv_server, reward_vars, client_vars, sched>>

(***************************************************************************)
(* The vault's process ends (at any point between two handlers) and is     *)
(* started again: run_init resets the readiness record, GvCLIServer::new   *)
(* builds the DaemonState and runs cleanup_missing_tx, and                 *)
(* wait_rpc_server_ready sets the readiness record.  When the recovery     *)
(* panics the server does not come up.                                     *)
(***************************************************************************)
GvCLIServer_new(is_syncing) ==
    LET recovered(r) ==
            /\ db' = IF r.panic THEN r.db
                     ELSE [r.db EXCEPT !.server_ready_db = ServerReady]
            /\ gv_server' = [gv_server EXCEPT !.up = ~r.panic, !.do_update = "idle",
                                              !.do_force_resync = "idle",
                                              !.import_wallet = "idle",
                                              !.handle_daemon_offline = "idle"]
            /\ daemon_state' = NewDaemonState(node, is_syncing /\ ~r.panic)
            /\ last_call' = Call("restart", "", ~r.panic, FALSE, FALSE, 0, r.panic)
    IN /\ node.up
       /\ recovered(cleanup_missing_tx(
                        [db EXCEPT !.server_ready_db = EmptyDb.server_ready_db], node))
       /\ Bounded(db')
       /\ UNCHANGED <<node, reward_vars, client_vars, sched>>

(***************************************************************************)
(* GvCLIServer::do_update, in the steps between which other handlers run:  *)
(* the readiness record is cleared before the download; a failed download  *)
(* sets it again; after the download the daemon is marked offline and      *)
(* stopped; when the new daemon answers it is marked online and the        *)
(* readiness record is set.                                                *)
(***************************************************************************)
queue_with_bot(d, task) ==
    IF gv_server.tg_bot_active THEN set_tg_bot_queue(d, TimeKey, task) ELSE d

do_update_start ==
    /\ gv_server.up /\ node.up
    /\ gv_server.do_update = "idle"
    /\ db' = set_server_ready(db, FALSE, "Daemon update in progress")
    /\ gv_server' = [gv_server EXCEPT !.do_update = "download"]
    /\ last_call' = NoCall
    /\ UNCHANGED <<daemon_state, node, reward_vars, client_vars, sched>>

do_update_download_failed ==
    /\ gv_server.up
    /\ gv_server.do_update = "download"
    /\ db' = set_server_ready(db, TRUE, "None")
    /\ gv_server' = [gv_server EXCEPT !.do_update = "idle"]
    /\ last_call' = NoCall
    /\ UNCHANGED <<daemon_state, node, reward_vars, client_vars, sched>>

do_update_stop_daemon ==
    /\ gv_server.up /\ node.up
    /\ gv_server.do_update = "download"
    /\ db' = queue_with_bot(db, UpdateInProgress)
    /\ daemon_state' = [daemon_state EXCEPT !.online = FALSE]
    /\ node' = [node EXCEPT !.up = FALSE]
    /\ gv_server' = [gv_server EXCEPT !.do_update = "install"]
    /\ last_call' = NoCall
    /\ UNCHANGED <<reward_vars, client_vars, sched>>

do_update_finish ==
    /\ gv_server.up
    /\ gv_server.do_update = "install"
    /\ node' = [node EXCEPT !.up = TRUE]
    /\ daemon_state' = [daemon_state EXCEPT !.online = TRUE]
    /\ db' = queue_with_bot(set_server_ready(db, TRUE, "None"), UpdateComplete)
    /\ gv_server' = [gv_server EXCEPT !.do_update = "idle"]
    /\ last_call' = NoCall
    /\ UNCHANGED <<reward_vars, client_vars, sched>>

(***************************************************************************)
(* SpecStake: the vault next to a node whose wallet stakes twice.          *)
(***************************************************************************)
InitStake ==
    /\ InitVault({"s1", "s2"}, FALSE)
    /\ InitRewardVars

NextStake ==
    \/ node_connect_block
    \/ \E txid \in Txids : node_reorg(txid)
    \/ \E txid \in Txids : node_forget(txid)
    \/ \E txid \in Txids : new_wallet_tx(txid)
    \/ \E height \in Tips, is_syncing \in BOOLEAN : new_block(height, is_syncing)
    \/ \E is_syncing \in BOOLEAN : GvCLIServer_new(is_syncing)

SpecStake == InitStake /\ [][NextStake]_vars

(***************************************************************************)
(* SpecZap: the vault next to a node whose wallet receives a deposit,      *)
(* with daemon updates.                                                    *)
(***************************************************************************)
InitZap ==
    /\ \E tg_bot_active \in BOOLEAN : InitVault({"z1"}, tg_bot_active)
    /\ InitRewardVars

NextZap ==
    \/ node_connect_block
    \/ \E txid \in Txids : node_reorg(txid)
    \/ \E txid \in Txids : node_forget(txid)
    \/ \E txid \in Txids : new_wallet_tx(txid)
    \/ \E height \in Tips, is_syncing \in BOOLEAN : new_block(height, is_syncing)
    \/ \E key \in Txids \cup {TimeKey} : background_task(key)
    \/ \E is_syncing \in BOOLEAN : GvCLIServer_new(is_syncing)
    \/ do_update_start
    \/ do_update_download_failed
    \/ do_update_stop_daemon
    \/ do_update_finish

SpecZap == InitZap /\ [][NextZap]_vars

clock ==
    /\ sched.now < MaxTime
    /\ sched' = [sched EXCEPT !.now = @ + 1]
    /\ last_call' = NoCall
    /\ UNCHANGED <<db, daemon_state, node, gv_server, reward_vars, client_vars>>

(***************************************************************************)
(* task_runner, one round of the loop: a task that is not running and is   *)
(* due gets its callback spawned.                                          *)
(***************************************************************************)
task_runner_loop ==
    /\ gv_server.up
    /\ LET task_details == db.task_queue[ProcessRewards]
           free == (1..MaxCallbacks) \ { c.id : c \in sched.callbacks }
       IN /\ ~task_details.task_running
          /\ sched.now >= task_details.next_run
          /\ free # {}
          /\ sched' = [sched EXCEPT !.callbacks =
                          @ \cup { [ id |-> CHOOSE i \in free : \A j \in free : i <= j,
                                     pc |-> "start", task_details |-> task_details ] }]
    /\ last_call' = Call("spawn", ProcessRewards, FALSE, FALSE, FALSE, 0, FALSE)
    /\ UNCHANGED <<db, daemon_state, node, gv_server, reward_vars, client_vars>>

(***************************************************************************)
(* process_rewards_callback: it reads the task and toggles task_running,   *)
(* calls process_payouts, and then schedule_next.                          *)
(***************************************************************************)
process_rewards_callback_start(c) ==
    /\ c \in sched.callbacks /\ c.pc = "start"
    /\ LET task_details == toggle_running(db.task_queue[ProcessRewards]) IN
          /\ db' = set_task(db, ProcessRewards, task_details)
          /\ sched' = [sched EXCEPT !.callbacks =
                          (@ \ {c}) \cup { [c EXCEPT !.pc = "call",
                                                      !.task_details = task_details] }]
    /\ last_call' = NoCall
    /\ UNCHANGED <<daemon_state, node, gv_server, reward_vars, client_vars>>

(***************************************************************************)
(* GvCLIServer::process_payouts, called by the callback: it spawns         *)
(* do_reward_payout and returns.                                           *)
(***************************************************************************)
process_payouts(c) ==
    /\ gv_server.up
    /\ c \in sched.callbacks /\ c.pc = "call"
    /\ sched.payouts < MaxPayouts
    /\ sched' = [sched EXCEPT !.payouts = @ + 1,
                              !.callbacks = (@ \ {c}) \cup { [c EXCEPT !.pc = "schedule"] }]
    /\ last_call' = Call("process_payouts", ProcessRewards, FALSE, FALSE, FALSE, 0, FALSE)
    /\ UNCHANGED <<db, daemon_state, node, gv_server, reward_vars, client_vars>>

do_reward_payout_done ==
    /\ sched.payouts > 0
    /\ sched' = [sched EXCEPT !.payouts = @ - 1]
    /\ last_call' = NoCall
    /\ UNCHANGED <<db, daemon_state, node, gv_server, reward_vars, client_vars>>

(***************************************************************************)
(* schedule_next: the next_run it computes at current_time.                *)
(***************************************************************************)
next_time_after_next_run(task_details, current_time) ==
    task_details.run_interval + task_details.next_run

next_time(task_details, current_time) == task_details.run_interval + current_time

(***************************************************************************)
(* schedule_next: next_run of the callback's copy becomes run_interval +   *)
(* now, the copy is stored, toggled and stored again.                      *)
(***************************************************************************)
schedule_next(c) ==
    /\ c \in sched.callbacks /\ c.pc = "schedule"
    /\ LET task_details ==
               [c.task_details EXCEPT !.next_run = next_time(c.task_details, sched.now)]
       IN db' = set_task(db, ProcessRewards, toggle_running(task_details))
    /\ sched' = [sched EXCEPT !.callbacks = @ \ {c}]
    /\ last_call' = Call("schedule_next", ProcessRewards, FALSE, FALSE, FALSE, 0, FALSE)
    /\ UNCHANGED <<daemon_state, node, gv_server, reward_vars, client_vars>>

(***************************************************************************)
(* SpecSched: the scheduler, its callbacks and the payouts they start.     *)
(***************************************************************************)
InitSchedSpec ==
    /\ InitVault({}, FALSE)
    /\ InitRewardVars

CallbackSlots ==
    [ id : 1..MaxCallbacks, pc : {"start", "call", "schedule"},
      task_details : [ id : {2}, name : {ProcessRewards}, run_interval : {RewardInterval},
                       next_run : 0..(MaxTime + RewardInterval),
                       min_payout : {DEFAULT_MIN_PAYOUT},
                       task_running : BOOLEAN ] ]

NextSched ==
    \/ clock
    \/ task_runner_loop
    \/ \E c \in CallbackSlots : process_rewards_callback_start(c)
    \/ \E c \in CallbackSlots : process_payouts(c)
    \/ \E c \in CallbackSlots : schedule_next(c)
    \/ do_reward_payout_done

SpecSched == InitSchedSpec /\ [][NextSched]_vars

(***************************************************************************)
(* SpecReward: get_block_reward applied to every transaction of the pools. *)
(***************************************************************************)
InitReward ==
    /\ rpc_tx \in [vin : SeqsUpTo(VinPool, MaxVin), vout : SeqsUpTo(VoutPool, MaxVout)]
    /\ rpc_height \in Heights
    /\ block_reward = NoReward
    /\ InitVault({}, FALSE)

CallGetBlockReward ==
    /\ block_reward = NoReward
    /\ \E overflow_checks \in BOOLEAN :
           block_reward' = get_block_reward(rpc_tx, rpc_height, overflow_checks)
    /\ UNCHANGED <<rpc_tx, rpc_height>>
    /\ UNCHANGED vault_vars

NextReward == CallGetBlockReward

SpecReward == InitReward /\ [][NextReward]_vars

(***************************************************************************)
(* The quantities the reward claims speak about, read off the transaction. *)
(***************************************************************************)
RECURSIVE SumOver(_, _)
SumOver(S, f) ==
    IF S = {} THEN 0
    ELSE LET x == CHOOSE y \in S : TRUE IN f[x] + SumOver(S \ {x}, f)

OutputAddress(o) == IF o.addresses = <<>> THEN "" ELSE Head(o.addresses)

CountedOutputTotal(tx) ==
    LET counted == { i \in DOMAIN tx.vout :
                        /\ tx.vout[i].type # "data"
                        /\ tx.vout[i].type # "anon"
                        /\ tx.vout[i].type # "blind"
                        /\ \A a \in DEV_FUND_ADDRESS : OutputAddress(tx.vout[i]) # a }
    IN SumOver(counted, [i \in counted |-> tx.vout[i].valueSat])

ResolvedInputTotal(tx) ==
    LET resolved == { i \in DOMAIN tx.vin : tx.vin[i].prev_ok }
    IN SumOver(resolved, [i \in resolved |-> tx.vin[i].valueSat])

SecondaryEligible(tx, height) ==
    /\ height >= AGVR_ACTIVATION_HEIGHT
    /\ Len(tx.vout) >= 1
    /\ ~tx.vout[1].gvr_fund_cfwd

OutputValue(tx, i) == IF Len(tx.vout) >= i + 1 THEN tx.vout[i + 1].valueSat ELSE -1

(***************************************************************************)
(* C9.  Whenever get_block_reward returns, stake_reward is the u64 value   *)
(* of (counted outputs - resolved inputs - secondary reward) and           *)
(* total_reward is the u64 value of secondary + stake; without wrap-around *)
(* these are the plain differences and sums.  The example transaction      *)
(* (inputs 100.000, outputs kernel 100.005, dev fund 0.001, anon) below    *)
(* the activation height gives stake 0.005, secondary 0, total 0.005.      *)
(***************************************************************************)
C9_RewardExact ==
    block_reward.status = "ok" =>
        LET expected == CountedOutputTotal(rpc_tx) - ResolvedInputTotal(rpc_tx)
                            - block_reward.agvr_reward
        IN
        /\ block_reward.stake_reward \in 0..(U64_MODULUS - 1)
        /\ block_reward.total_reward \in 0..(U64_MODULUS - 1)
        /\ (block_reward.stake_reward - expected) % U64_MODULUS = 0
        /\ (block_reward.total_reward
              - (block_reward.agvr_reward + block_reward.stake_reward)) % U64_MODULUS = 0
        /\ expected >= 0 =>
              /\ block_reward.stake_reward = expected
              /\ block_reward.total_reward =
                     block_reward.agvr_reward + block_reward.stake_reward
        /\ (rpc_tx = ExampleTx /\ rpc_height < AGVR_ACTIVATION_HEIGHT) =>
              /\ block_reward.stake_reward = 5
              /\ block_reward.agvr_reward = 0
              /\ block_reward.total_reward = 5

C9_Witness ==
    /\ rpc_tx = ExampleTx
    /\ rpc_height < AGVR_ACTIVATION_HEIGHT
    /\ block_reward.status = "ok"
    /\ block_reward.stake_reward = 5

(***************************************************************************)
(* C10 as stated: for an eligible stake the secondary reward is the value  *)
(* of output 1 if output 1's address differs from the stake kernel         *)
(* address, and otherwise the value of output 2.                           *)
(***************************************************************************)
C10_AsStated ==
    (block_reward.status = "ok" /\ SecondaryEligible(rpc_tx, rpc_height)) =>
        block_reward.agvr_reward =
            IF OutputAddress(rpc_tx.vout[2]) # block_reward.stake_kernel
            THEN OutputValue(rpc_tx, 1)
            ELSE OutputValue(rpc_tx, 2)

(***************************************************************************)
(* C10, amended: for an eligible stake the secondary reward is the value   *)
(* of output 1 if output 1's address equals the stake kernel address, and  *)
(* otherwise the value of output 2; a stake that is not eligible has       *)
(* secondary reward 0.                                                     *)
(***************************************************************************)
C10_SecondaryOutput ==
    block_reward.status = "ok" =>
        IF SecondaryEligible(rpc_tx, rpc_height)
        THEN /\ Len(rpc_tx.vout) >= 2
             /\ block_reward.agvr_reward =
                    IF OutputAddress(rpc_tx.vout[2]) = block_reward.stake_kernel
                    THEN OutputValue(rpc_tx, 1)
                    ELSE OutputValue(rpc_tx, 2)
        ELSE block_reward.agvr_reward = 0

C10_Witness ==
    /\ block_reward.status = "ok"
    /\ SecondaryEligible(rpc_tx, rpc_height)
    /\ Len(rpc_tx.vout) >= 3
    /\ OutputAddress(rpc_tx.vout[2]) # block_reward.stake_kernel
    /\ OutputValue(rpc_tx, 1) # OutputValue(rpc_tx, 2)
    /\ block_reward.agvr_reward = OutputValue(rpc_tx, 2)

(***************************************************************************)
(* The quantities the ledger claims speak about.                           *)
(***************************************************************************)
Ledger == db.rewards_ts_index

Ingesting(op) == op \in {"new_wallet_tx", "restart"}

Cumulative(tree) ==
    \A k \in DOMAIN tree :
        LET upto == { j \in DOMAIN tree : j <= k } IN
        /\ tree[k].all_time_reward = SumOver(upto, [j \in upto |-> tree[j].reward])
        /\ tree[k].all_time_agvr_reward =
               SumOver(upto, [j \in upto |-> tree[j].agvr_reward])

KeepsRecords(old, new) ==
    \A k \in DOMAIN old : k \in DOMAIN new /\ new[k] = old[k]

NotAStake(nd, txid) ==
    LET tx == get_transaction(nd, txid) IN
    \/ ~tx.ok
    \/ Len(tx.details) = 0
    \/ tx.details[1].category # "stake"

(***************************************************************************)
(* C1 as stated: a step that ingests stakes (new_wallet_tx, or the         *)
(* recovery of a restart) leaves every RewardRecord that is already in the *)
(* ledger as it is, so that delivering a stake again changes neither the   *)
(* set of records nor their all_time_reward / all_time_agvr_reward.        *)
(***************************************************************************)
C1_NoDoubleCount ==
    [][ Ingesting(last_call'.op) => KeepsRecords(Ledger, Ledger') ]_vars

(***************************************************************************)
(* C2 as stated: stakes ingested in any arrival order keep the ledger      *)
(* cumulative: a step that adds records for new stakes to a cumulative     *)
(* ledger, keeping the old records, leaves every all_time_reward and       *)
(* all_time_agvr_reward the sum over the records up to its timestamp.      *)
(***************************************************************************)
C2_AnyOrder ==
    [][ ( /\ Ingesting(last_call'.op)
          /\ KeepsRecords(Ledger, Ledger')
          /\ Cumulative(Ledger) )
        => Cumulative(Ledger') ]_vars

(***************************************************************************)
(* C2, amended: stakes ingested in increasing order of timestamp keep the  *)
(* ledger cumulative: a step that adds records to a cumulative ledger,     *)
(* keeping the old records, all new timestamps above all old ones, leaves  *)
(* every all_time_reward and all_time_agvr_reward the sum over the         *)
(* records up to its timestamp.                                            *)
(***************************************************************************)
C2_InTimestampOrder ==
    [][ ( /\ Ingesting(last_call'.op)
          /\ KeepsRecords(Ledger, Ledger')
          /\ \A k \in DOMAIN Ledger' \ DOMAIN Ledger : \A j \in DOMAIN Ledger : j < k
          /\ Cumulative(Ledger) )
        => Cumulative(Ledger') ]_vars

C2_Witness ==
    /\ last_call.op = "new_wallet_tx"
    /\ last_call.arg = "s2"
    /\ DOMAIN Ledger = {10, 20}
    /\ Ledger[10].all_time_reward = 5
    /\ Ledger[20].all_time_reward = 8
    /\ Ledger[20].all_time_agvr_reward = 7

(***************************************************************************)
(* C3.  A new_block whose hash equals best_block_hash writes no            *)
(* checkpoint, runs no zap pass and no stake pass, and leaves the database *)
(* and the DaemonState (best_block, best_block_hash, synced, cycle) as     *)
(* they are.                                                               *)
(***************************************************************************)
C3_DuplicateBlockNoOp ==
    [][ ( /\ last_call'.op = "new_block"
          /\ last_call'.arg = daemon_state.best_block_hash )
        => /\ ~last_call'.checkpoint
           /\ ~last_call'.zap_pass
           /\ ~last_call'.stake_pass
           /\ db' = db
           /\ daemon_state' = daemon_state ]_vars

C3_Witness ==
    /\ last_call.op = "new_block"
    /\ last_call.arg = daemon_state.best_block_hash
    /\ ~last_call.checkpoint
    /\ daemon_ready(daemon_state)
    /\ "z1" \in DOMAIN db.zap_status_db

(***************************************************************************)
(* C4 as stated: next_run of the process_rewards task is advanced only     *)
(* when no reward payout started by the task is still in progress.         *)
(***************************************************************************)
C4_NextRunAfterPayout ==
    [][ db'.task_queue[ProcessRewards].next_run # db.task_queue[ProcessRewards].next_run
        => sched.payouts = 0 ]_vars

(***************************************************************************)
(* C5 as stated: while the persisted readiness record has daemon_ready     *)
(* false, a new_block for a new hash writes the checkpoint, runs neither   *)
(* pass and queues no notification.                                        *)
(***************************************************************************)
C5_GatedByReadinessRecord ==
    [][ ( /\ last_call'.op = "new_block"
          /\ last_call'.arg # daemon_state.best_block_hash
          /\ ~db.server_ready_db.daemon_ready )
        => /\ last_call'.checkpoint
           /\ ~last_call'.zap_pass
           /\ ~last_call'.stake_pass
           /\ db'.tg_bot_queue = db.tg_bot_queue ]_vars

(***************************************************************************)
(* C6 as stated: after the recovery of a restart every stake of the        *)
(* wallet that is in the chain has a RewardRecord.                         *)
(***************************************************************************)
C6_RecoveryComplete ==
    (last_call.op = "restart" /\ ~last_call.panic) =>
        \A t \in Txids :
            (WalletTx[t].category = "stake" /\ ~NotAStake(node, t))
                => WalletTx[t].blocktime \in DOMAIN Ledger

(***************************************************************************)
(* C7 as stated, with the bot active: a zap pass that finds a tracked      *)
(* deposit at 225 or more confirmations deletes its record and queues the  *)
(* "now staking" notification under its key, whatever the queue holds.     *)
(***************************************************************************)
MatureZap(d, nd, txid) ==
    /\ txid \in DOMAIN d.zap_status_db
    /\ get_transaction(nd, txid).ok
    /\ get_transaction(nd, txid).confirmations >= 225

SameAt(old, new, key) ==
    IF key \in DOMAIN old THEN key \in DOMAIN new /\ new[key] = old[key]
    ELSE key \notin DOMAIN new

C7_AlwaysQueued ==
    [][ \A z \in Txids :
          (last_call'.zap_pass /\ gv_server.tg_bot_active /\ MatureZap(db, node, z))
          => /\ z \notin DOMAIN db'.zap_status_db
             /\ z \in DOMAIN db'.tg_bot_queue
             /\ db'.tg_bot_queue[z] = ZapNowStaking ]_vars

(***************************************************************************)
(* C7, amended: a zap pass that finds a tracked deposit at 225 or more     *)
(* confirmations deletes its record; it queues the "now staking"           *)
(* notification under the deposit's key when the bot is active and         *)
(* nothing is queued under that key, and otherwise leaves the queue at     *)
(* that key as it is.  A pass that finds no record of a deposit changes    *)
(* neither the records nor the queue at its key.                           *)
(***************************************************************************)
C7_ZapMaturity ==
    [][ \A z \in Txids :
          /\ (last_call'.zap_pass /\ MatureZap(db, node, z))
             => /\ z \notin DOMAIN db'.zap_status_db
                /\ IF gv_server.tg_bot_active /\ z \notin DOMAIN db.tg_bot_queue
                   THEN /\ z \in DOMAIN db'.tg_bot_queue
                        /\ db'.tg_bot_queue[z] = ZapNowStaking
                   ELSE SameAt(db.tg_bot_queue, db'.tg_bot_queue, z)
          /\ (last_call'.zap_pass /\ z \notin DOMAIN db.zap_status_db)
             => /\ z \notin DOMAIN db'.zap_status_db
                /\ SameAt(db.tg_bot_queue, db'.tg_bot_queue, z) ]_vars

C7_Witness ==
    /\ last_call.op = "new_block"
    /\ last_call.zap_pass
    /\ ~last_call.panic
    /\ get_transaction(node, "z1").ok
    /\ get_transaction(node, "z1").confirmations = 225
    /\ "z1" \notin DOMAIN db.zap_status_db
    /\ "z1" \in DOMAIN db.tg_bot_queue
    /\ db.tg_bot_queue["z1"] = ZapNowStaking

(***************************************************************************)
(* C8.  A stake pass removes, for every pending stake whose transaction    *)
(* cannot be fetched or whose first detail is not of category stake, the   *)
(* pending record and the RewardRecord at the stake's timestamp, and       *)
(* leaves every other RewardRecord, cumulative totals included, as it is.  *)
(***************************************************************************)
C8_ReorgCleanup ==
    [][ last_call'.stake_pass =>
          LET removed == { s \in DOMAIN db.new_stake_status : NotAStake(node, s) }
              keys == { db.new_stake_status[s].timestamp : s \in removed }
          IN /\ \A s \in removed : s \notin DOMAIN db'.new_stake_status
             /\ \A k \in keys : k \notin DOMAIN Ledger'
             /\ \A k \in DOMAIN Ledger \ keys :
                    k \in DOMAIN Ledger' /\ Ledger'[k] = Ledger[k] ]_vars

C8_Witness ==
    /\ last_call.op = "new_block"
    /\ last_call.stake_pass
    /\ NotAStake(node, "s1")
    /\ "s1" \notin DOMAIN db.new_stake_status
    /\ DOMAIN Ledger = {20}
    /\ Ledger[20].all_time_reward = 8

(***************************************************************************)
(* C11: when get_block_reward succeeds on a transaction with a resolved    *)
(* input, the stake kernel address it returns is the address of the first  *)
(* resolved input: no later input, resolved or not, overwrites it.         *)
(***************************************************************************)
ResolvedInputs(tx) == { i \in 1..Len(tx.vin) : tx.vin[i].prev_ok }

FirstResolvedAddress(tx) ==
    get_addr_from_vout(
        tx.vin[CHOOSE i \in ResolvedInputs(tx) : \A j \in ResolvedInputs(tx) : i <= j])

C11_FirstResolvedKernel ==
    (block_reward.status = "ok" /\ ResolvedInputs(rpc_tx) # {})
        => block_reward.stake_kernel = FirstResolvedAddress(rpc_tx)

(***************************************************************************)
(* GvCLIServer::get_stakes_days.  Time is counted in seconds, a day has    *)
(* DaySecs of them; an argument up to DaysLimit is a number of days, a     *)
(* greater one the start of the range itself.  The start of a range of     *)
(* days is an i64 timestamp cast to u64.                                   *)
(***************************************************************************)
DaySecs == 5

DaysLimit == 6

Nows == {10, 20, 25}

DaysArgs == (0..DaysLimit) \cup {10, 20}

as_u64(x) == x % U64_MODULUS

convert_from_sat(value) == << value \div SatPerCoin, value % SatPerCoin >>

range_after_start(tree, range_start, range_end) ==
    { k \in DOMAIN tree : range_start < k /\ k <= range_end }

range(tree, range_start, range_end) ==
    { k \in DOMAIN tree : range_start <= k /\ k <= range_end }

first_stake(tree) ==
    IF DOMAIN tree = {} THEN 0
    ELSE tree[CHOOSE k \in DOMAIN tree : \A j \in DOMAIN tree : k <= j].timestamp

get_stakes_days(tree, now, days_or_start) ==
    LET totals(keys) ==
            [ stakes |-> Cardinality(keys),
              rewards |-> convert_from_sat(
                              SumOver(keys, [k \in keys |-> tree[k].reward])
                                  % U64_MODULUS),
              agvr |-> convert_from_sat(
                           SumOver(keys, [k \in keys |-> tree[k].agvr_reward])
                               % U64_MODULUS),
              total |-> convert_from_sat(
                            SumOver(keys, [k \in keys |->
                                               tree[k].reward + tree[k].agvr_reward])
                                % U64_MODULUS) ]
    IN totals(range(tree,
                    IF days_or_start = 0 THEN first_stake(tree)
                    ELSE IF days_or_start <= DaysLimit
                    THEN as_u64(now - days_or_start * DaySecs)
                    ELSE days_or_start,
                    as_u64(now)))

(***************************************************************************)
(* A request that reads the totals of a range (get_overview and the bot's  *)
(* statistics call get_stakes_days) at wall-clock time now.                *)
(***************************************************************************)
call_get_stakes_days(now, days_or_start) ==
    /\ gv_server.up
    /\ reply' = [ op |-> "get_stakes_days", now |-> now, arg |-> days_or_start,
                  totals |-> get_stakes_days(db.rewards_ts_index, now, days_or_start) ]
    /\ last_call' = Call("get_stakes_days", days_or_start, FALSE, FALSE, FALSE, 0, FALSE)
    /\ UNCHANGED <<db, daemon_state, node, gv_server, sched, reward_vars, gv_config, bot_runner, wallet>>

(***************************************************************************)
(* SpecRange: the ledger as the stakes of the wallet are ingested, and the *)
(* range queries on it.                                                    *)
(***************************************************************************)
InitRange ==
    /\ InitVault({"s1", "s2"}, FALSE)
    /\ InitRewardVars

NextRange ==
    \/ node_connect_block
    \/ \E txid \in Txids : new_wallet_tx(txid)
    \/ \E now \in Nows, days_or_start \in DaysArgs : call_get_stakes_days(now, days_or_start)

SpecRange == InitRange /\ [][NextRange]_vars

(***************************************************************************)
(* The totals of the RewardRecords whose timestamp lies in lo..hi, in      *)
(* coins.                                                                  *)
(***************************************************************************)
RecordsBetween(lo, hi) ==
    { k \in DOMAIN Ledger : lo <= Ledger[k].timestamp /\ Ledger[k].timestamp <= hi }

Coins(sat) == << sat \div SatPerCoin, sat % SatPerCoin >>

TotalsOf(keys) ==
    [ stakes |-> Cardinality(keys),
      rewards |-> Coins(SumOver(keys, [k \in keys |-> Ledger[k].reward])),
      agvr |-> Coins(SumOver(keys, [k \in keys |-> Ledger[k].agvr_reward])),
      total |-> Coins(SumOver(keys, [k \in keys |-> Ledger[k].reward])
                          + SumOver(keys, [k \in keys |-> Ledger[k].agvr_reward])) ]

(***************************************************************************)
(* C12 as stated: for every number of days d in 1..DaysLimit the reply is  *)
(* the totals of the records with now - d days <= timestamp <= now.        *)
(***************************************************************************)
C12_EveryDayCount ==
    (last_call.op = "get_stakes_days" /\ reply.arg \in 1..DaysLimit)
        => reply.totals = TotalsOf(RecordsBetween(reply.now - reply.arg * DaySecs,
                                                  reply.now))

(***************************************************************************)
(* C12: for a number of days d in 1..DaysLimit that does not reach before  *)
(* time 0 the reply is the totals of the records with                      *)
(* now - d days <= timestamp <= now, both boundaries included; when the d  *)
(* days reach before time 0 the reply counts no record; for d = 0 the      *)
(* reply is the totals of all records up to now.                           *)
(***************************************************************************)
C12_RangeQuery ==
    last_call.op = "get_stakes_days" =>
        /\ (reply.arg \in 1..DaysLimit /\ reply.now - reply.arg * DaySecs >= 0)
              => reply.totals = TotalsOf(RecordsBetween(reply.now - reply.arg * DaySecs,
                                                        reply.now))
        /\ (reply.arg \in 1..DaysLimit /\ reply.now - reply.arg * DaySecs < 0)
              => reply.totals = TotalsOf({})
        /\ reply.arg = 0 => reply.totals = TotalsOf(RecordsBetween(0, reply.now))

C12_Witness ==
    /\ last_call.op = "get_stakes_days"
    /\ reply.arg = 2 /\ reply.now = 20
    /\ DOMAIN Ledger = {10, 20}
    /\ reply.totals.stakes = 2
    /\ reply.totals.rewards = << 0, 8 >>
    /\ reply.totals.agvr = << 0, 7 >>
    /\ reply.totals.total = << 0, 15 >>

(***************************************************************************)
(* GvCLIServer::do_force_resync, in two steps: the DaemonState is marked   *)
(* offline and not synced, the readiness record is cleared and the daemon  *)
(* is stopped; when the daemon answers again it is marked online and the   *)
(* readiness record is set.                                                *)
(***************************************************************************)
do_force_resync_start ==
    /\ gv_server.up /\ node.up
    /\ gv_server.do_force_resync = "idle"
    /\ daemon_state' = [daemon_state EXCEPT !.online = FALSE, !.synced = FALSE]
    /\ db' = set_server_ready(db, FALSE, "Forcing resync")
    /\ node' = [node EXCEPT !.up = FALSE]
    /\ gv_server' = [gv_server EXCEPT !.do_force_resync = "startup"]
    /\ last_call' = NoCall
    /\ UNCHANGED <<reward_vars, client_vars, sched>>

do_force_resync_finish ==
    /\ gv_server.up
    /\ gv_server.do_force_resync = "startup"
    /\ node' = [node EXCEPT !.up = TRUE]
    /\ daemon_state' = [daemon_state EXCEPT !.online = TRUE]
    /\ db' = set_server_ready(db, TRUE, "None")
    /\ gv_server' = [gv_server EXCEPT !.do_force_resync = "idle"]
    /\ last_call' = NoCall
    /\ UNCHANGED <<reward_vars, client_vars, sched>>

(***************************************************************************)
(* GvCLIServer::import_wallet.  An invalid mnemonic is answered at once.   *)
(* Otherwise the readiness record is cleared and the DaemonState marked    *)
(* unavailable, and DaemonHelper::import_wallet runs: when it fails the    *)
(* error is the reply; when it succeeds a task is spawned that clears the  *)
(* database, runs cleanup_missing_tx, marks the DaemonState available and  *)
(* sets the readiness record.                                              *)
(***************************************************************************)
clear_db(d) ==
    [d EXCEPT !.rewards_ts_index = EmptyTree,
              !.daemon_status_db = NoCheckpoint,
              !.zap_status_db = EmptyTree,
              !.new_stake_status = EmptyTree]

Reply(op, result) == [op |-> op, result |-> result]

import_wallet_start(mnemonic_valid) ==
    /\ gv_server.up /\ node.up
    /\ gv_server.import_wallet = "idle"
    /\ db' = IF mnemonic_valid THEN set_server_ready(db, FALSE, "Importing Wallet") ELSE db
    /\ daemon_state' = IF mnemonic_valid THEN [daemon_state EXCEPT !.available = FALSE]
                       ELSE daemon_state
    /\ gv_server' = IF mnemonic_valid THEN [gv_server EXCEPT !.import_wallet = "importing"]
                    ELSE gv_server
    /\ reply' = IF mnemonic_valid THEN NoReply
                ELSE Reply("import_wallet", "Invalid mnemonic!")
    /\ last_call' = NoCall
    /\ UNCHANGED <<node, reward_vars, gv_config, bot_runner, sched, wallet>>

import_wallet_failed ==
    /\ gv_server.up
    /\ gv_server.import_wallet = "importing"
    /\ gv_server' = [gv_server EXCEPT !.import_wallet = "idle"]
    /\ reply' = Reply("import_wallet", "Error importing wallet")
    /\ last_call' = NoCall
    /\ UNCHANGED <<db, daemon_state, node, reward_vars, gv_config, bot_runner, sched, wallet>>

import_wallet_imported ==
    /\ gv_server.up /\ node.up
    /\ gv_server.import_wallet = "importing"
    /\ gv_server' = [gv_server EXCEPT !.import_wallet = "spawned"]
    /\ reply' = Reply("import_wallet", "Wallet imported!")
    /\ last_call' = NoCall
    /\ UNCHANGED <<db, daemon_state, node, reward_vars, gv_config, bot_runner, sched, wallet>>

import_wallet_spawned ==
    LET recovered(r) ==
            /\ db' = IF r.panic THEN r.db ELSE set_server_ready(r.db, TRUE, "None")
            /\ daemon_state' = IF r.panic THEN daemon_state
                               ELSE [daemon_state EXCEPT !.available = TRUE]
            /\ last_call' = Call("import_wallet", "", ~r.panic, FALSE, FALSE, 0, r.panic)
    IN /\ gv_server.up
       /\ gv_server.import_wallet = "spawned"
       /\ recovered(IF node.up THEN cleanup_missing_tx(clear_db(db), node)
                    ELSE [db |-> clear_db(db), panic |-> TRUE])
       /\ gv_server' = [gv_server EXCEPT !.import_wallet = "idle"]
       /\ UNCHANGED <<node, reward_vars, client_vars, sched>>

(***************************************************************************)
(* SpecMaint: the maintenance operations of a vault whose wallet received  *)
(* a deposit.  An operation that has started takes its next step.          *)
(***************************************************************************)
InitMaint ==
    /\ \E tg_bot_active \in BOOLEAN : InitVault({"z1"}, tg_bot_active)
    /\ InitRewardVars

NextMaint ==
    \/ node_connect_block
    \/ \E txid \in Txids : new_wallet_tx(txid)
    \/ \E key \in Txids \cup {TimeKey} : background_task(key)
    \/ do_update_start
    \/ do_update_download_failed
    \/ do_update_stop_daemon
    \/ do_update_finish
    \/ do_force_resync_start
    \/ do_force_resync_finish
    \/ \E mnemonic_valid \in BOOLEAN : import_wallet_start(mnemonic_valid)
    \/ import_wallet_failed
    \/ import_wallet_imported
    \/ import_wallet_spawned

SpecMaint ==
    /\ InitMaint
    /\ [][NextMaint]_vars
    /\ WF_vars(do_update_download_failed \/ do_update_stop_daemon)
    /\ WF_vars(do_update_finish)
    /\ WF_vars(do_force_resync_finish)
    /\ WF_vars(import_wallet_failed \/ import_wallet_imported)
    /\ WF_vars(import_wallet_spawned)

(***************************************************************************)
(* C13: whenever the readiness record says the daemon is not ready (a      *)
(* wallet import, a forced resync or an upgrade has cleared it), it        *)
(* eventually says ready again with the reason cleared, however the        *)
(* operation ends.                                                         *)
(***************************************************************************)
C13_ReadinessRestored ==
    (~db.server_ready_db.daemon_ready)
        ~> (db.server_ready_db.daemon_ready /\ db.server_ready_db.reason = "None")

(***************************************************************************)
(* The daemon stops answering (at most MaxStops times) and answers again.  *)
(***************************************************************************)
node_stop ==
    /\ node.up
    /\ node.stops < MaxStops
    /\ node' = [node EXCEPT !.up = FALSE, !.stops = @ + 1]
    /\ last_call' = NoCall
    /\ UNCHANGED <<db, daemon_state, gv_server, reward_vars, client_vars, sched>>

node_start ==
    /\ ~node.up
    /\ node' = [node EXCEPT !.up = TRUE]
    /\ last_call' = NoCall
    /\ UNCHANGED <<db, daemon_state, gv_server, reward_vars, client_vars, sched>>

(***************************************************************************)
(* monitor_daemon_online and GvCLIServer::handle_daemon_offline: while the *)
(* DaemonState is online a failed getblockcount starts the handler, which  *)
(* marks the DaemonState offline and clears the readiness record; under    *)
(* Docker it returns there; otherwise it waits for the daemon (starting it *)
(* when the connection is refused) and then sets the readiness record and  *)
(* marks the DaemonState online.                                           *)
(***************************************************************************)
DaemonOffline == TgMsg("offline", "Daemon offline!", "None", "None")
DaemonOnline == TgMsg("online", "Daemon online!", "None", "None")

returns_under_docker_always(is_docker) == TRUE

returns_under_docker(is_docker) == is_docker

handle_daemon_offline_start ==
    /\ gv_server.up
    /\ daemon_state.online /\ ~node.up
    /\ gv_server.handle_daemon_offline = "idle"
    /\ daemon_state' = [daemon_state EXCEPT !.online = FALSE]
    /\ db' = IF returns_under_docker(gv_server.is_docker)
             THEN set_server_ready(db, FALSE, "Daemon offline")
             ELSE queue_with_bot(set_server_ready(db, FALSE, "Daemon offline"),
                                 DaemonOffline)
    /\ gv_server' = IF returns_under_docker(gv_server.is_docker) THEN gv_server
                    ELSE [gv_server EXCEPT !.handle_daemon_offline = "startup"]
    /\ last_call' = Call("handle_daemon_offline", "", FALSE, FALSE, FALSE, 0, FALSE)
    /\ UNCHANGED <<node, reward_vars, client_vars, sched>>

start_daemon ==
    /\ gv_server.up
    /\ gv_server.handle_daemon_offline = "startup"
    /\ ~node.up
    /\ node' = [node EXCEPT !.up = TRUE]
    /\ last_call' = NoCall
    /\ UNCHANGED <<db, daemon_state, gv_server, reward_vars, client_vars, sched>>

handle_daemon_offline_finish ==
    /\ gv_server.up
    /\ gv_server.handle_daemon_offline = "startup"
    /\ node.up
    /\ db' = queue_with_bot(set_server_ready(db, TRUE, "None"), DaemonOnline)
    /\ daemon_state' = [daemon_state EXCEPT !.online = TRUE]
    /\ gv_server' = [gv_server EXCEPT !.handle_daemon_offline = "idle"]
    /\ last_call' = Call("daemon_online", "", FALSE, FALSE, FALSE, 0, FALSE)
    /\ UNCHANGED <<node, reward_vars, client_vars, sched>>

(***************************************************************************)
(* SpecOffline: a vault, under Docker or not, next to a daemon that stops  *)
(* and starts.  A stopped daemon is started again, the monitor notices a   *)
(* stopped daemon and the handler takes its steps.                         *)
(***************************************************************************)
InitOffline ==
    /\ \E tg_bot_active \in BOOLEAN, is_docker \in BOOLEAN :
           InitVaultIn({"z1"}, tg_bot_active, is_docker)
    /\ InitRewardVars

NextOffline ==
    \/ node_connect_block
    \/ \E txid \in Txids : new_wallet_tx(txid)
    \/ \E height \in Tips, is_syncing \in BOOLEAN : new_block(height, is_syncing)
    \/ \E key \in Txids \cup {TimeKey} : background_task(key)
    \/ node_stop
    \/ node_start
    \/ handle_daemon_offline_start
    \/ start_daemon
    \/ handle_daemon_offline_finish

SpecOffline ==
    /\ InitOffline
    /\ [][NextOffline]_vars
    /\ WF_vars(node_start)
    /\ WF_vars(start_daemon)
    /\ WF_vars(handle_daemon_offline_finish)

(***************************************************************************)
(* C14 as stated: once handle_daemon_offline has marked the DaemonState    *)
(* offline, with the daemon answering again the DaemonState is eventually  *)
(* online and the readiness record says ready.                             *)
(***************************************************************************)
C14_OfflineRecovery ==
    (~daemon_state.online)
        ~> (daemon_state.online /\ db.server_ready_db.daemon_ready)

(***************************************************************************)
(* C14: outside Docker, once the DaemonState is offline it is eventually   *)
(* online again with the readiness record saying ready; under Docker the   *)
(* handler returns after clearing them and no step of the vault marks the  *)
(* DaemonState online again.                                               *)
(***************************************************************************)
C14_RecoveryOutsideDocker ==
    /\ (~gv_server.is_docker /\ ~daemon_state.online)
           ~> (daemon_state.online /\ db.server_ready_db.daemon_ready)
    /\ [][ (gv_server.is_docker /\ ~daemon_state.online) => ~daemon_state'.online ]_vars

C14_Witness ==
    /\ ~gv_server.is_docker
    /\ last_call.op = "daemon_online"
    /\ node.stops = 1 /\ node.up
    /\ daemon_state.online
    /\ db.server_ready_db = ServerReady

(***************************************************************************)
(* C15: a new_block that runs the zap pass does not abort: the stake pass  *)
(* runs as well, and every pending deposit and pending stake whose         *)
(* transaction the node no longer returns is deleted, a stake together     *)
(* with its RewardRecord.                                                  *)
(***************************************************************************)
Vanished(nd, txid) == ~get_transaction(nd, txid).ok

C15_VanishedIsData ==
    [][ (last_call'.op = "new_block" /\ last_call'.zap_pass)
          => /\ ~last_call'.panic
             /\ last_call'.stake_pass
             /\ \A z \in DOMAIN db.zap_status_db :
                    Vanished(node, z) => z \notin DOMAIN db'.zap_status_db
             /\ \A t \in DOMAIN db.new_stake_status :
                    Vanished(node, t)
                        => /\ t \notin DOMAIN db'.new_stake_status
                           /\ db.new_stake_status[t].timestamp \notin DOMAIN Ledger' ]_vars

(***************************************************************************)
(* GvCLIServer::set_reward_interval.  A string is the sequence of its      *)
(* characters.  str::parse::<i64> takes an optional sign and one or more   *)
(* digits; i64::to_string and str::parse::<u64> are the conversions of     *)
(* GVConfig::update_gv_config.  The strings of IntervalStrings are too     *)
(* short for a number to leave the range of an i64.                        *)
(***************************************************************************)
MaxChars == 3

DigitChars == <<"0", "1", "2", "3", "4", "5", "6", "7", "8", "9">>

IntervalChars == {"0", "1", "-", "s", "m", "x"}

IntervalStrings == SeqsUpTo(IntervalChars, MaxChars)

is_digit(ch) == \E d \in DOMAIN DigitChars : DigitChars[d] = ch

digit_value(ch) == (CHOOSE d \in DOMAIN DigitChars : DigitChars[d] = ch) - 1

all_digits(str) == Len(str) > 0 /\ \A i \in DOMAIN str : is_digit(str[i])

RECURSIVE decimal(_)
decimal(str) ==
    IF str = <<>> THEN 0
    ELSE 10 * decimal(SubSeq(str, 1, Len(str) - 1)) + digit_value(str[Len(str)])

RECURSIVE digits_of(_)
digits_of(n) ==
    IF n < 10 THEN << DigitChars[n + 1] >>
    ELSE digits_of(n \div 10) \o << DigitChars[(n % 10) + 1] >>

to_string(n) == IF n < 0 THEN <<"-">> \o digits_of(0 - n) ELSE digits_of(n)

parse_i64(str) ==
    IF all_digits(str) THEN [ok |-> TRUE, value |-> decimal(str)]
    ELSE IF Len(str) > 1 /\ Head(str) = "-" /\ all_digits(Tail(str))
         THEN [ok |-> TRUE, value |-> 0 - decimal(Tail(str))]
    ELSE IF Len(str) > 1 /\ Head(str) = "+" /\ all_digits(Tail(str))
         THEN [ok |-> TRUE, value |-> decimal(Tail(str))]
    ELSE [ok |-> FALSE, value |-> 0]

parse_u64(str) ==
    IF all_digits(str) THEN [ok |-> TRUE, value |-> decimal(str)]
    ELSE IF Len(str) > 1 /\ Head(str) = "+" /\ all_digits(Tail(str))
         THEN [ok |-> TRUE, value |-> decimal(Tail(str))]
    ELSE [ok |-> FALSE, value |-> 0]

replace(str, ch) == SelectSeq(str, LAMBDA c : c # ch)

second == 1
minute == 60 * second
hour == 60 * minute
day == 24 * hour
week == 7 * day
month == 30 * day
year == 365 * day

multipliers ==
    [ s |-> second, m |-> minute, h |-> hour, d |-> day, w |-> week, M |-> month,
      y |-> year ]

(***************************************************************************)
(* What a request handler leaves: the config, the database, the value it   *)
(* returned, and whether it panicked instead of returning.                 *)
(***************************************************************************)
Handled(conf, d, result, panic) ==
    [gv_config |-> conf, db |-> d, result |-> result, panic |-> panic]

update_payout_interval(d, new_interval) ==
    set_task(d, ProcessRewards,
             [d.task_queue[ProcessRewards] EXCEPT !.run_interval = new_interval])

handle_set_reward_interval(conf, d, interval) ==
    LET invalid == Handled(conf, d, "Invalid interval!", FALSE)
        store(parsed, new_interval) ==
            IF ~parsed.ok THEN Handled(conf, d, "None", TRUE)
            ELSE Handled([conf EXCEPT !.reward_interval = parsed.value],
                         update_payout_interval(d, new_interval),
                         "Reward interval updated!", FALSE)
        scale(multiplier, timeframe) ==
            IF multiplier \notin DOMAIN multipliers THEN invalid
            ELSE store(parse_u64(to_string(timeframe * multipliers[multiplier])),
                       timeframe * multipliers[multiplier])
        number(multiplier, parsed_str) ==
            IF ~parsed_str.ok THEN invalid ELSE scale(multiplier, parsed_str.value)
        strip(multiplier, striped_str) ==
            IF striped_str = <<>> THEN invalid
            ELSE number(multiplier, parse_i64(striped_str))
        unit(multiplier) == strip(multiplier, replace(interval, multiplier))
    IN IF interval = <<>> THEN Handled(conf, d, "None", TRUE)
       ELSE unit(interval[Len(interval)])

set_reward_interval(interval) ==
    /\ gv_server.up
    /\ LET handled(r) ==
               /\ gv_config' = r.gv_config
               /\ db' = r.db
               /\ reply' = IF r.panic THEN NoReply
                           ELSE Reply("set_reward_interval", r.result)
               /\ last_call' = Call("set_reward_interval", interval,
                                    FALSE, FALSE, FALSE, 0, r.panic)
       IN handled(handle_set_reward_interval(gv_config, db, interval))
    /\ UNCHANGED <<daemon_state, node, gv_server, sched, reward_vars, bot_runner, wallet>>

(***************************************************************************)
(* GvCLIServer::set_payout_min; the amount is given in whole coins.        *)
(***************************************************************************)
PayoutMins == 0..2

update_payout_min(d, new_min_payout) ==
    set_task(d, ProcessRewards,
             [d.task_queue[ProcessRewards] EXCEPT !.min_payout = new_min_payout])

handle_set_payout_min(conf, d, min) ==
    LET store(min_int) ==
            IF min_int < MIN_TX_VALUE
            THEN Handled(conf, d, "Minimum payout too low!", FALSE)
            ELSE Handled([conf EXCEPT !.min_reward_payout = min_int],
                         update_payout_min(d, min_int),
                         "Minimum payout updated!", FALSE)
    IN store(convert_to_sat(min))

set_payout_min(min) ==
    /\ gv_server.up
    /\ LET handled(r) ==
               /\ gv_config' = r.gv_config
               /\ db' = r.db
               /\ reply' = Reply("set_payout_min", r.result)
               /\ last_call' = Call("set_payout_min", min, FALSE, FALSE, FALSE, 0, FALSE)
       IN handled(handle_set_payout_min(gv_config, db, min))
    /\ UNCHANGED <<daemon_state, node, gv_server, sched, reward_vars, bot_runner, wallet>>

(***************************************************************************)
(* SpecInterval: the two settings requests, with every string of           *)
(* IntervalStrings as the interval.                                        *)
(***************************************************************************)
InitInterval ==
    /\ InitVault({}, FALSE)
    /\ InitRewardVars

NextInterval ==
    \/ \E interval \in IntervalStrings : set_reward_interval(interval)
    \/ \E min \in PayoutMins : set_payout_min(min)

SpecInterval == InitInterval /\ [][NextInterval]_vars

(***************************************************************************)
(* A well-formed interval: a positive number written in digits, followed   *)
(* by one unit letter; IntervalSeconds is the time it names.               *)
(***************************************************************************)
WellFormedInterval(str) ==
    /\ Len(str) > 1
    /\ str[Len(str)] \in DOMAIN multipliers
    /\ all_digits(SubSeq(str, 1, Len(str) - 1))
    /\ decimal(SubSeq(str, 1, Len(str) - 1)) > 0

IntervalSeconds(str) ==
    decimal(SubSeq(str, 1, Len(str) - 1)) * multipliers[str[Len(str)]]

(***************************************************************************)
(* C16: set_reward_interval with a well-formed interval sets the config's  *)
(* reward_interval and the process_rewards task's run_interval to the      *)
(* seconds it names; with any other string it returns "Invalid interval!"  *)
(* without panicking and leaves both unchanged.                            *)
(***************************************************************************)
C16_IntervalValidation ==
    [][ last_call'.op = "set_reward_interval"
          => IF WellFormedInterval(last_call'.arg)
             THEN /\ gv_config'.reward_interval = IntervalSeconds(last_call'.arg)
                  /\ db'.task_queue[ProcessRewards].run_interval
                         = IntervalSeconds(last_call'.arg)
             ELSE /\ ~last_call'.panic
                  /\ reply' = Reply("set_reward_interval", "Invalid interval!")
                  /\ gv_config' = gv_config
                  /\ db'.task_queue = db.task_queue ]_vars

(***************************************************************************)
(* DaemonHelper::parse_error_msg, on the HTTP status or the transport      *)
(* error of a failed RPC call: what it does before the caller gets the     *)
(* error back.                                                             *)
(***************************************************************************)
NodeStatusErrors == {"401 Unauthorized", "404 Not Found"}

parse_error_msg(err_msg) ==
    IF err_msg = "404 Not Found" THEN "panic"
    ELSE IF err_msg = "Connection refused" THEN "start_daemon"
    ELSE "return"

(***************************************************************************)
(* monitor_daemon_online when the running daemon answers getblockcount     *)
(* with an error status: getblockcount passes the message to               *)
(* parse_error_msg and returns the error, and the monitor calls            *)
(* handle_daemon_offline.                                                  *)
(***************************************************************************)
getblockcount_error(err_msg) ==
    /\ gv_server.up
    /\ daemon_state.online /\ node.up
    /\ gv_server.handle_daemon_offline = "idle"
    /\ LET handled(outcome) ==
               /\ daemon_state' = IF outcome = "panic" THEN daemon_state
                                  ELSE [daemon_state EXCEPT !.online = FALSE]
               /\ db' = IF outcome = "panic" THEN db
                        ELSE IF returns_under_docker(gv_server.is_docker)
                        THEN set_server_ready(db, FALSE, "Daemon offline")
                        ELSE queue_with_bot(set_server_ready(db, FALSE, "Daemon offline"),
                                            DaemonOffline)
               /\ gv_server' = IF outcome = "panic"
                                  \/ returns_under_docker(gv_server.is_docker)
                               THEN gv_server
                               ELSE [gv_server EXCEPT !.handle_daemon_offline = "startup"]
               /\ last_call' = Call("getblockcount", err_msg, FALSE, FALSE, FALSE, 0,
                                    outcome = "panic")
       IN handled(parse_error_msg(err_msg))
    /\ UNCHANGED <<node, reward_vars, client_vars, sched>>

(***************************************************************************)
(* SpecRpcError: SpecOffline's vault next to a daemon that may also answer *)
(* the monitor with an error status.                                       *)
(***************************************************************************)
NextRpcError ==
    \/ node_connect_block
    \/ \E txid \in Txids : new_wallet_tx(txid)
    \/ \E height \in Tips, is_syncing \in BOOLEAN : new_block(height, is_syncing)
    \/ \E key \in Txids \cup {TimeKey} : background_task(key)
    \/ node_stop
    \/ node_start
    \/ handle_daemon_offline_start
    \/ start_daemon
    \/ handle_daemon_offline_finish
    \/ \E err_msg \in NodeStatusErrors : getblockcount_error(err_msg)

SpecRpcError == InitOffline /\ [][NextRpcError]_vars

(***************************************************************************)
(* C17: an RPC call of the monitor that the daemon answers with            *)
(* "401 Unauthorized" makes the process panic.                             *)
(***************************************************************************)
C17_UnauthorizedIsFatal ==
    (last_call.op = "getblockcount" /\ last_call.arg = "401 Unauthorized")
        => last_call.panic

(***************************************************************************)
(* SpecTasks: the scheduler and its callbacks next to the two settings     *)
(* requests that rewrite the process_rewards task.                         *)
(***************************************************************************)
IntervalArgs == { <<"1", "s">> }

PayoutArgs == { 2 }

NextTasks ==
    \/ clock
    \/ task_runner_loop
    \/ \E c \in sched.callbacks : process_rewards_callback_start(c)
    \/ \E c \in sched.callbacks : process_payouts(c)
    \/ \E c \in sched.callbacks : schedule_next(c)
    \/ do_reward_payout_done
    \/ \E interval \in IntervalArgs : set_reward_interval(interval)
    \/ \E min \in PayoutArgs : set_payout_min(min)

SpecTasks == InitSchedSpec /\ [][NextTasks]_vars

(***************************************************************************)
(* C18: the run_interval and the min_payout of the process_rewards task    *)
(* change only by the settings requests, whatever a running callback does  *)
(* meanwhile, and schedule_next computes next_run from the run_interval    *)
(* the task has at that moment.                                            *)
(***************************************************************************)
C18_UpdatesNotLost ==
    [][ /\ last_call'.op \notin {"set_reward_interval", "set_payout_min"}
            => /\ db'.task_queue[ProcessRewards].run_interval
                      = db.task_queue[ProcessRewards].run_interval
               /\ db'.task_queue[ProcessRewards].min_payout
                      = db.task_queue[ProcessRewards].min_payout
        /\ last_call'.op = "schedule_next"
            => db'.task_queue[ProcessRewards].next_run
                   = db.task_queue[ProcessRewards].run_interval + sched.now ]_vars

(***************************************************************************)
(* BotRunner::background_task on the worker threads of the runtime, for a  *)
(* stake message: background_task_send sends the message and reads the     *)
(* pending record of its stake (get_new_stake_status); background_task_    *)
(* store writes that copy back with the message id                         *)
(* (set_new_stake_status) and removes the message from the queue.  The     *)
(* handlers of the server run on the other threads in between.             *)
(***************************************************************************)
background_task_send(key) ==
    /\ gv_server.tg_bot_active
    /\ bot_runner = BotIdle
    /\ key \in DOMAIN db.tg_bot_queue
    /\ db.tg_bot_queue[key].msg_type = "stake"
    /\ db.tg_bot_queue[key].reward_txid \in DOMAIN db.new_stake_status
    /\ bot_runner' = [ pc |-> "store", key |-> key,
                       reward_txid |-> db.tg_bot_queue[key].reward_txid,
                       stake_status |->
                           db.new_stake_status[db.tg_bot_queue[key].reward_txid] ]
    /\ last_call' = NoCall
    /\ UNCHANGED <<db, daemon_state, node, gv_server, sched, reward_vars, gv_config, reply, wallet>>

background_task_store ==
    /\ bot_runner.pc = "store"
    /\ db' = [ set_new_stake_status(db, bot_runner.reward_txid,
                   [bot_runner.stake_status EXCEPT !.tg_msg_id = "Some"])
                 EXCEPT !.tg_bot_queue = Del(@, bot_runner.key) ]
    /\ bot_runner' = BotIdle
    /\ last_call' = Call("background_task", bot_runner.reward_txid,
                         FALSE, FALSE, FALSE, 0, FALSE)
    /\ UNCHANGED <<daemon_state, node, gv_server, sched, reward_vars, gv_config, reply, wallet>>

(***************************************************************************)
(* SpecBot: the vault with its Telegram bot next to a node whose wallet    *)
(* stakes.                                                                 *)
(***************************************************************************)
InitBot ==
    /\ InitVault({"s1"}, TRUE)
    /\ InitRewardVars

NextBot ==
    \/ node_connect_block
    \/ \E txid \in Txids : node_reorg(txid)
    \/ \E txid \in Txids : new_wallet_tx(txid)
    \/ \E height \in Tips, is_syncing \in BOOLEAN : new_block(height, is_syncing)
    \/ \E key \in Txids \cup {TimeKey} : background_task(key)
    \/ \E key \in Txids \cup {TimeKey} : background_task_send(key)
    \/ background_task_store

SpecBot == InitBot /\ [][NextBot]_vars

(***************************************************************************)
(* C19: a step of the bot does not create a PendingStakeStatus that is not *)
(* in the database and does not change the confirmations of one that is.   *)
(***************************************************************************)
C19_SingleWriter ==
    [][ last_call'.op = "background_task"
          => /\ DOMAIN db'.new_stake_status \subseteq DOMAIN db.new_stake_status
             /\ \A t \in DOMAIN db.new_stake_status :
                    db'.new_stake_status[t].confirmations
                        = db.new_stake_status[t].confirmations ]_vars

(***************************************************************************)
(* C20: in every pass over zap_status_db, of new_block and of the recovery *)
(* at a start, a PendingZapStatus whose transaction is fetched with        *)
(* negative confirmations or with 225 or more is deleted; any other is     *)
(* kept with the fetched confirmations, and its first_notice turns true    *)
(* only in a pass that queues the new-deposit notification under its txid. *)
(***************************************************************************)
ZapRule(d0, d1, key, confirms) ==
    IF confirms < 0 \/ confirms >= 225 THEN key \notin DOMAIN d1.zap_status_db
    ELSE /\ key \in DOMAIN d1.zap_status_db
         /\ d1.zap_status_db[key].confirmations = confirms
         /\ (~d0.zap_status_db[key].first_notice /\ d1.zap_status_db[key].first_notice)
                => /\ key \notin DOMAIN d0.tg_bot_queue
                   /\ key \in DOMAIN d1.tg_bot_queue
                   /\ d1.tg_bot_queue[key] = NewZapDetected

ZapPass(call) == (call.op = "new_block" /\ call.zap_pass) \/ call.op = "restart"

C20_ZapReconciliation ==
    [][ ZapPass(last_call')
          => \A key \in DOMAIN db.zap_status_db :
                 get_transaction(node, db.zap_status_db[key].txid).ok
                     => ZapRule(db, db', key,
                                get_transaction(node, db.zap_status_db[key].txid)
                                    .confirmations) ]_vars

(***************************************************************************)
(* C21: in a stake pass every pending stake whose transaction is still a   *)
(* stake is removed when it has more than 100 confirmations, its           *)
(* RewardRecord staying as it is, and is kept with the fetched             *)
(* confirmations when it has 100 or fewer; do_flush_rewards_to_anon is     *)
(* called once for each stake removed so, and not otherwise.               *)
(***************************************************************************)
StillStakes(d, nd) == { s \in DOMAIN d.new_stake_status : ~NotAStake(nd, s) }

MaturedStakes(d, nd) ==
    { s \in StillStakes(d, nd) : get_transaction(nd, s).confirmations > 100 }

C21_StakeMaturity ==
    [][ last_call'.stake_pass
          => /\ \A s \in MaturedStakes(db, node) :
                    /\ s \notin DOMAIN db'.new_stake_status
                    /\ db.new_stake_status[s].timestamp \in DOMAIN Ledger
                         => /\ db.new_stake_status[s].timestamp \in DOMAIN Ledger'
                            /\ Ledger'[db.new_stake_status[s].timestamp]
                                   = Ledger[db.new_stake_status[s].timestamp]
             /\ \A s \in StillStakes(db, node) \ MaturedStakes(db, node) :
                    /\ s \in DOMAIN db'.new_stake_status
                    /\ db'.new_stake_status[s].confirmations
                           = get_transaction(node, s).confirmations
             /\ last_call'.flushes = Cardinality(MaturedStakes(db, node)) ]_vars

C21_Witness ==
    /\ last_call.op = "new_block"
    /\ last_call.stake_pass
    /\ last_call.flushes = 1
    /\ get_transaction(node, "s1").confirmations = 101
    /\ "s1" \notin DOMAIN db.new_stake_status
    /\ 10 \in DOMAIN Ledger
    /\ "s2" \in DOMAIN db.new_stake_status
    /\ db.new_stake_status["s2"].confirmations = 100

(***************************************************************************)
(* C22: new_wallet_tx for a stake leaves the confirmations and the message *)
(* id of a pending record the stake already has; for a stake without one   *)
(* it creates the pending record, with the confirmations of the            *)
(* transaction, only when these are at most 100, and writes the            *)
(* RewardRecord in either case.                                            *)
(***************************************************************************)
IsStake(nd, txid) == ~NotAStake(nd, txid)

C22_PendingStakeCreation ==
    [][ (last_call'.op = "new_wallet_tx" /\ ~last_call'.panic
             /\ IsStake(node, last_call'.arg))
          => /\ get_transaction(node, last_call'.arg).blocktime \in DOMAIN Ledger'
             /\ IF last_call'.arg \in DOMAIN db.new_stake_status
                THEN /\ last_call'.arg \in DOMAIN db'.new_stake_status
                     /\ db'.new_stake_status[last_call'.arg].confirmations
                            = db.new_stake_status[last_call'.arg].confirmations
                     /\ db'.new_stake_status[last_call'.arg].tg_msg_id
                            = db.new_stake_status[last_call'.arg].tg_msg_id
                ELSE IF get_transaction(node, last_call'.arg).confirmations <= 100
                THEN /\ last_call'.arg \in DOMAIN db'.new_stake_status
                     /\ db'.new_stake_status[last_call'.arg].confirmations
                            = get_transaction(node, last_call'.arg).confirmations
                ELSE last_call'.arg \notin DOMAIN db'.new_stake_status ]_vars

(***************************************************************************)
(* C23: new_wallet_tx for a deposit changes zap_status_db only by creating *)
(* the record of a deposit that is not tracked and has from 0 to 224       *)
(* confirmations, with these confirmations.  In every step a new-deposit   *)
(* notification is put in the queue for a txid only when the txid has no   *)
(* PendingZapStatus or one with first_notice false, and the record has     *)
(* first_notice true after the step; first_notice of a record does not     *)
(* turn false again.  So a record sees at most one such notification.      *)
(***************************************************************************)
NewDepositQueued(d0, d1, key) ==
    /\ key \in DOMAIN d1.tg_bot_queue
    /\ d1.tg_bot_queue[key] = NewZapDetected
    /\ ~(key \in DOMAIN d0.tg_bot_queue /\ d0.tg_bot_queue[key] = NewZapDetected)

IsDeposit(nd, txid) ==
    /\ get_transaction(nd, txid).ok
    /\ get_transaction(nd, txid).details[1].category = "receive"

C23_FirstNoticeOnce ==
    [][ /\ (last_call'.op = "new_wallet_tx" /\ IsDeposit(node, last_call'.arg))
            => IF last_call'.arg \in DOMAIN db.zap_status_db
                    \/ get_transaction(node, last_call'.arg).confirmations < 0
                    \/ get_transaction(node, last_call'.arg).confirmations >= 225
               THEN db'.zap_status_db = db.zap_status_db
               ELSE /\ last_call'.arg \in DOMAIN db'.zap_status_db
                    /\ db'.zap_status_db[last_call'.arg].confirmations
                           = get_transaction(node, last_call'.arg).confirmations
        /\ \A key \in Txids :
               /\ NewDepositQueued(db, db', key)
                    => /\ key \in DOMAIN db.zap_status_db
                            => ~db.zap_status_db[key].first_notice
                       /\ key \in DOMAIN db'.zap_status_db
                       /\ db'.zap_status_db[key].first_notice
               /\ (key \in DOMAIN db.zap_status_db /\ key \in DOMAIN db'.zap_status_db
                      /\ db.zap_status_db[key].first_notice)
                    => db'.zap_status_db[key].first_notice ]_vars

C23_Witness ==
    /\ gv_server.tg_bot_active
    /\ last_call.op = "new_block"
    /\ last_call.zap_pass
    /\ "z1" \in DOMAIN db.zap_status_db
    /\ db.zap_status_db["z1"].first_notice
    /\ db.zap_status_db["z1"].confirmations = 224
    /\ "z1" \notin DOMAIN db.tg_bot_queue

(***************************************************************************)
(* C24: next_run of the process_rewards task changes in no step but        *)
(* schedule_next, in particular not when the clock moves or the loop       *)
(* spawns the job; schedule_next sets it to the time of that step plus     *)
(* run_interval, however far the old next_run lies in the past; and the    *)
(* loop spawns the job only at or after next_run.                          *)
(***************************************************************************)
RewardsTask == db.task_queue[ProcessRewards]

tasks_to_complete == << "daemon_update", "self_update", ProcessRewards >>

DEFAULT_DEAMON_UPDATE == 60 * 60 * 2

DEFAULT_SELF_UPDATE == 60 * 60 * 2

get_index(v, val) == (CHOOSE index \in DOMAIN v : v[index] = val) - 1

is_scheduled_never(d, task) == FALSE

is_scheduled(d, task) == task \in DOMAIN d.task_queue

task_entry(conf, task, current_time) ==
    [ id |-> get_index(tasks_to_complete, task),
      name |-> task,
      run_interval |-> IF task = "daemon_update" THEN DEFAULT_DEAMON_UPDATE
                       ELSE IF task = "self_update" THEN DEFAULT_SELF_UPDATE
                       ELSE conf.reward_interval,
      next_run |-> current_time,
      min_payout |-> IF task = ProcessRewards THEN DEFAULT_MIN_PAYOUT ELSE "None",
      task_running |-> FALSE ]

RECURSIVE task_runner_init(_, _, _, _)
task_runner_init(d, conf, current_time, i) ==
    IF i > Len(tasks_to_complete) THEN d
    ELSE task_runner_init(
             IF is_scheduled(d, tasks_to_complete[i]) THEN d
             ELSE set_task(d, tasks_to_complete[i],
                           task_entry(conf, tasks_to_complete[i], current_time)),
             conf, current_time, i + 1)

task_runner_start ==
    /\ ~gv_server.up
    /\ db' = task_runner_init(db, gv_config, sched.now, 1)
    /\ gv_server' = [gv_server EXCEPT !.up = TRUE]
    /\ last_call' = Call("task_runner", "", FALSE, FALSE, FALSE, 0, FALSE)
    /\ UNCHANGED <<daemon_state, node, sched, reward_vars, client_vars>>

(***************************************************************************)
(* SpecTaskInit: the vault starts, at any time of the clock, on a database *)
(* that holds a Task for any of the three tasks or for none, as an earlier *)
(* run or an older version left them.                                      *)
(***************************************************************************)
StoredTasks(task) ==
    { [task_entry(InitConfig, task, 0) EXCEPT !.run_interval = run_interval,
                                              !.next_run = next_run,
                                              !.task_running = task_running] :
          run_interval \in {1, RewardInterval}, next_run \in {0, MaxTime + 1},
          task_running \in BOOLEAN }

StoredOrNone(task) == { <<>> } \cup { << t >> : t \in StoredTasks(task) }

TaskQueueOf(stored) ==
    [ task \in { tasks_to_complete[i] : i \in { j \in DOMAIN stored : stored[j] # <<>> } }
        |-> stored[get_index(tasks_to_complete, task) + 1][1] ]

InitTaskInit ==
    /\ InitRewardVars
    /\ node = InitNode({})
    /\ \E daemon_update \in StoredOrNone("daemon_update"),
          self_update \in StoredOrNone("self_update"),
          process_rewards \in { <<>>, << InitTask >>,
                                << [InitTask EXCEPT !.task_running = TRUE] >> } :
           db = [EmptyDb EXCEPT !.task_queue =
                                    TaskQueueOf(<< daemon_update, self_update,
                                                   process_rewards >>)]
    /\ sched = InitSched
    /\ daemon_state = NewDaemonState(InitNode({}), FALSE)
    /\ gv_server = [ up |-> FALSE, tg_bot_active |-> FALSE, is_docker |-> FALSE,
                     new_block |-> {}, check_chain |-> NoChainCheck,
                     startup |-> Started, config |-> ConfigFree,
                     do_update |-> "idle", do_force_resync |-> "idle",
                     import_wallet |-> "idle", handle_daemon_offline |-> "idle" ]
    /\ last_call = NoCall
    /\ gv_config \in { [InitConfig EXCEPT !.reward_interval = reward_interval] :
                           reward_interval \in {RewardInterval, RewardInterval + 1} }
    /\ reply = NoReply
    /\ bot_runner = BotIdle
    /\ wallet = EmptyWallet

NextTaskInit ==
    \/ clock
    \/ task_runner_start

SpecTaskInit == InitTaskInit /\ [][NextTaskInit]_vars

(***************************************************************************)
(* C25: the start of task_runner leaves every stored Task as it is and     *)
(* stores, for each of the three tasks without one, a Task with next_run   *)
(* the time of the start, task_running false and the interval of the task  *)
(* (two hours for the updates, the configured reward_interval for          *)
(* process_rewards); task_queue then holds the three tasks.                *)
(***************************************************************************)
TaskNames == { tasks_to_complete[i] : i \in DOMAIN tasks_to_complete }

C25_TaskTableInit ==
    [][ last_call'.op = "task_runner"
          => /\ DOMAIN db'.task_queue = TaskNames
             /\ \A task \in TaskNames :
                    IF task \in DOMAIN db.task_queue
                    THEN db'.task_queue[task] = db.task_queue[task]
                    ELSE /\ db'.task_queue[task].next_run = sched.now
                         /\ ~db'.task_queue[task].task_running
                         /\ db'.task_queue[task].run_interval
                                = IF task = ProcessRewards THEN gv_config.reward_interval
                                  ELSE 60 * 60 * 2 ]_vars

C25_Witness ==
    /\ last_call.op = "task_runner"
    /\ sched.now = 1
    /\ gv_config.reward_interval = RewardInterval + 1
    /\ db.task_queue[ProcessRewards].next_run = 1
    /\ db.task_queue[ProcessRewards].run_interval = RewardInterval + 1
    /\ db.task_queue["self_update"].next_run = 1
    /\ db.task_queue["daemon_update"].task_running
    /\ db.task_queue["daemon_update"].next_run = MaxTime + 1

(***************************************************************************)
(* The process of the vault ends while it serves, by a crash or a          *)
(* shutdown: its callbacks and payouts end with it, the database stays.    *)
(* task_runner_start is the next start.                                    *)
(***************************************************************************)
vault_exit ==
    /\ gv_server.up
    /\ gv_server' = [gv_server EXCEPT !.up = FALSE]
    /\ sched' = [sched EXCEPT !.callbacks = {}, !.payouts = 0]
    /\ last_call' = NoCall
    /\ UNCHANGED <<db, daemon_state, node, reward_vars, client_vars>>

(***************************************************************************)
(* SpecSchedLive: the scheduler of a vault that may end and start again.   *)
(* A spawned callback takes its steps, a started payout ends, and a vault  *)
(* that is down is started.                                                *)
(***************************************************************************)
NextSchedLive ==
    \/ clock
    \/ task_runner_loop
    \/ \E c \in sched.callbacks : process_rewards_callback_start(c)
    \/ \E c \in sched.callbacks : process_payouts(c)
    \/ \E c \in sched.callbacks : schedule_next(c)
    \/ do_reward_payout_done
    \/ vault_exit
    \/ task_runner_start

SpecSchedLive ==
    /\ InitSchedSpec
    /\ [][NextSchedLive]_vars
    /\ WF_vars(\E c \in sched.callbacks : process_rewards_callback_start(c))
    /\ WF_vars(\E c \in sched.callbacks : process_payouts(c))
    /\ WF_vars(\E c \in sched.callbacks : schedule_next(c))
    /\ WF_vars(do_reward_payout_done)
    /\ WF_vars(task_runner_start)

(***************************************************************************)
(* C26: whenever task_running of the process_rewards task is true it is    *)
(* eventually false again, also when the vault ends during the job and is  *)
(* started again.                                                          *)
(***************************************************************************)
C26_TaskRunningCleared ==
    RewardsTask.task_running ~> ~RewardsTask.task_running

(***************************************************************************)
(* C27 as stated: at most one do_reward_payout run is in progress at any   *)
(* time.                                                                   *)
(***************************************************************************)
C27_NoConcurrentPayouts == sched.payouts <= 1

(***************************************************************************)
(* daemon_helper.rs: send_ghost and zap_ghost.  An unspent output of the   *)
(* node's listing is [txid, amount, safe, spendable]; a sendtypeto call is *)
(* [test_fee, inputs, amount, output, fee, txid]: the dry run (test_fee    *)
(* true) answers with the fee, the commit with the txid.  The node's fee   *)
(* is fee_rate for each input.  The RPC calls are answered.                *)
(***************************************************************************)
MaxDeposits == 2

MAX_TX_FEES == SatPerCoin \div 4

FeeRates == 1..3

DepositCounts == {1, 100}

DepositAmounts == {1, DEFAULT_MIN_PAYOUT}

NodeTxids == << "p1", "p2", "p3", "p4" >>

NodeTxid(n) == IF n <= Len(NodeTxids) THEN NodeTxids[n] ELSE "pN"

(***************************************************************************)
(* DaemonHelper::precise rounds to 10^-8 GHOST; an amount of the model is  *)
(* a whole number of 10^-3 GHOST and has no further digits to round.       *)
(***************************************************************************)
precise(input) == input

is_spendable(in_type, unspent_item) ==
    IF in_type = "ghost" THEN unspent_item.safe /\ unspent_item.spendable
    ELSE unspent_item.safe

(***************************************************************************)
(* The estimate is asked for at every 100th input and at the last item.    *)
(***************************************************************************)
fee_check_due_at_100(inputs_len, is_last) == inputs_len % 100 = 0

fee_check_due(inputs_len, is_last) == inputs_len % 100 = 0 \/ is_last

(***************************************************************************)
(* The transaction is committed when its estimate has reached max_fee, and *)
(* at the last item.                                                       *)
(***************************************************************************)
commit_due_at_last(fee_amt, max_fee, is_last) == is_last

commit_due(fee_amt, max_fee, is_last) == fee_amt >= max_fee \/ is_last

SendTypeTo(test_fee, in_type, output, inputs, amount, fee, txid) ==
    [ test_fee |-> test_fee, in_type |-> in_type, output |-> output, inputs |-> inputs,
      amount |-> amount, fee |-> fee, txid |-> txid ]

NoSends == [txids |-> <<>>, inputs |-> <<>>, output_amt |-> 0, calls |-> <<>>]

(***************************************************************************)
(* The body of the loop for the item at index, on the values acc of        *)
(* txids, inputs, output_amt and the calls made so far.                    *)
(***************************************************************************)
send_item(unspent_array, in_type, output, fee_rate, index, acc) ==
    LET unspent_item == At(unspent_array, index)
        counted(inputs, output_amt, is_last) ==
            IF inputs = <<>> THEN acc
            ELSE IF ~fee_check_due(Len(inputs), is_last)
            THEN [acc EXCEPT !.inputs = inputs, !.output_amt = output_amt]
            ELSE LET fee_amt == fee_rate * Len(inputs)
                     dry_run == SendTypeTo(TRUE, in_type, output, inputs,
                                           precise(output_amt), fee_amt, "None")
                     txid == NodeTxid(Len(acc.txids) + 1)
                 IN IF commit_due(fee_amt, MAX_TX_FEES, is_last)
                    THEN [ txids |-> Append(acc.txids, txid),
                           inputs |-> <<>>,
                           output_amt |-> 0,
                           calls |-> acc.calls \o
                               << dry_run,
                                  SendTypeTo(FALSE, in_type, output, inputs,
                                             precise(output_amt), fee_amt, txid) >> ]
                    ELSE [ acc EXCEPT !.inputs = inputs, !.output_amt = output_amt,
                                      !.calls = Append(@, dry_run) ]
    IN IF is_spendable(in_type, unspent_item)
       THEN counted(Append(acc.inputs, unspent_item.txid),
                    acc.output_amt + unspent_item.amount,
                    index + 1 = Len(unspent_array))
       ELSE counted(acc.inputs, acc.output_amt, index + 1 = Len(unspent_array))

(***************************************************************************)
(* The loop over the items at first..last in their order; the range is     *)
(* walked by halves and the left half's result is bound as a value, which  *)
(* keeps the evaluation shallow.                                           *)
(***************************************************************************)
RECURSIVE send_loop(_, _, _, _, _, _, _)
send_loop(unspent_array, in_type, output, fee_rate, first, last, acc) ==
    IF first > last THEN acc
    ELSE IF first = last
    THEN send_item(unspent_array, in_type, output, fee_rate, first, acc)
    ELSE CHOOSE done \in
             { send_loop(unspent_array, in_type, output, fee_rate,
                         (first + last) \div 2 + 1, last, left) :
                 left \in { send_loop(unspent_array, in_type, output, fee_rate,
                                      first, (first + last) \div 2, acc) } } : TRUE

(***************************************************************************)
(* send_ghost: the txids it returns and the sendtypeto calls it made.      *)
(***************************************************************************)
send_ghost(unspent_array, addr, in_type, out_type, fee_rate) ==
    send_loop(unspent_array, in_type, [address |-> addr, type |-> out_type],
              fee_rate, 0, Len(unspent_array) - 1, NoSends)

(***************************************************************************)
(* zap_ghost: the same loop, the output being the cold staking script of   *)
(* spend_addr, sent to the public balance.                                 *)
(***************************************************************************)
zap_ghost(unspent_array, spend_addr, in_type, fee_rate) ==
    send_loop(unspent_array, in_type, [address |-> "script", type |-> "ghost"],
              fee_rate, 0, Len(unspent_array) - 1, NoSends)

(***************************************************************************)
(* The wallet receives count anon outputs of one amount, safe or not yet.  *)
(***************************************************************************)
wallet_receive(count, amount, safe) ==
    /\ node.up
    /\ wallet.deposits < MaxDeposits
    /\ wallet' = [wallet EXCEPT
                     !.unspent = @ \o [ i \in 1..count |->
                                          [ txid |-> wallet.next_txid + i - 1,
                                            amount |-> amount, safe |-> safe,
                                            spendable |-> TRUE ] ],
                     !.deposits = @ + 1,
                     !.next_txid = @ + count]
    /\ last_call' = NoCall
    /\ UNCHANGED <<db, daemon_state, node, gv_server, sched, reward_vars,
                   gv_config, reply, bot_runner>>

(***************************************************************************)
(* getbalances, mine.anon_trusted: the sum of the safe anon outputs.       *)
(***************************************************************************)
RECURSIVE trusted_sum(_, _, _)
trusted_sum(unspent_array, first, last) ==
    IF first > last THEN 0
    ELSE IF first = last
    THEN (IF At(unspent_array, first).safe THEN At(unspent_array, first).amount ELSE 0)
    ELSE trusted_sum(unspent_array, first, (first + last) \div 2)
         + trusted_sum(unspent_array, (first + last) \div 2 + 1, last)

anon_trusted(unspent_array) == trusted_sum(unspent_array, 0, Len(unspent_array) - 1)

RewardsComing == TgMsg("rewards", "Rewards coming your way!", "None", "None")

InputsOf(calls) ==
    UNION { { calls[i].inputs[j] : j \in 1..Len(calls[i].inputs) } :
              i \in { k \in 1..Len(calls) : ~calls[k].test_fee } }

Unspent(unspent_array, spent) ==
    SelectSeq(unspent_array, LAMBDA unspent_item : unspent_item.txid \notin spent)

(***************************************************************************)
(* GvCLIServer::do_reward_payout: the database and the wallet it leaves.   *)
(***************************************************************************)
handle_reward_payout(d, ds, conf, tg_bot_active, w, addr_info, fee_rate) ==
    LET skipped == [db |-> d, wallet |-> w]
        sent(txids) ==
            IF txids.txids = <<>> THEN skipped
            ELSE [ db |-> IF tg_bot_active
                          THEN set_tg_bot_queue(d, txids.txids[1], RewardsComing)
                          ELSE d,
                   wallet |-> [w EXCEPT !.unspent = Unspent(@, InputsOf(txids.calls)),
                                        !.calls = txids.calls] ]
    IN IF ~daemon_ready(ds) THEN skipped
       ELSE IF ~(anon_trusted(w.unspent) >= conf.min_reward_payout) THEN skipped
       ELSE IF conf.anon_reward_address = "None" THEN skipped
       ELSE IF addr_info.is256bit
       THEN sent(zap_ghost(w.unspent, conf.anon_reward_address, "anon", fee_rate))
       ELSE sent(send_ghost(w.unspent, conf.anon_reward_address, "anon",
                            IF addr_info.isstealthaddress THEN "anon" ELSE "ghost",
                            fee_rate))

AddressInfos == [isstealthaddress : BOOLEAN, is256bit : BOOLEAN]

do_reward_payout(addr_info, fee_rate) ==
    /\ gv_server.up /\ node.up
    /\ LET paid(r) == /\ db' = r.db
                      /\ wallet' = r.wallet
       IN paid(handle_reward_payout(db, daemon_state, gv_config, gv_server.tg_bot_active,
                                    wallet, addr_info, fee_rate))
    /\ last_call' = Call("do_reward_payout",
                         IF addr_info.is256bit THEN "zap_ghost" ELSE "send_ghost",
                         FALSE, FALSE, FALSE, 0, FALSE)
    /\ UNCHANGED <<daemon_state, node, gv_server, sched, reward_vars,
                   gv_config, reply, bot_runner>>

(***************************************************************************)
(* SpecPayout: the payouts of a vault whose wallet receives anon outputs,  *)
(* with daemon updates.                                                    *)
(***************************************************************************)
InitPayout ==
    /\ \E tg_bot_active \in BOOLEAN, anon_reward_address \in {"None", "addr"} :
           InitVaultConf({}, tg_bot_active, FALSE,
                         [InitConfig EXCEPT !.anon_reward_address = anon_reward_address])
    /\ InitRewardVars

NextPayout ==
    \/ \E count \in DepositCounts, amount \in DepositAmounts, safe \in BOOLEAN :
           wallet_receive(count, amount, safe)
    \/ \E addr_info \in AddressInfos, fee_rate \in FeeRates :
           do_reward_payout(addr_info, fee_rate)
    \/ do_update_start
    \/ do_update_download_failed
    \/ do_update_stop_daemon
    \/ do_update_finish

SpecPayout == InitPayout /\ [][NextPayout]_vars

(***************************************************************************)
(* C28 as stated: do_reward_payout sends nothing and enqueues nothing      *)
(* unless the readiness record has daemon_ready, the in-memory flags are   *)
(* all true, the trusted anon balance is at least the minimum payout and a *)
(* reward address is configured; a skipped run changes no state.           *)
(***************************************************************************)
PayoutAllowed ==
    /\ db.server_ready_db.daemon_ready
    /\ daemon_ready(daemon_state)
    /\ anon_trusted(wallet.unspent) >= gv_config.min_reward_payout
    /\ gv_config.anon_reward_address # "None"

C28_PayoutGating ==
    [][ (last_call'.op = "do_reward_payout" /\ ~PayoutAllowed)
        => (db' = db /\ wallet' = wallet) ]_vars

(***************************************************************************)
(* SpecBatch: the payouts of a ready vault with a reward address, as its   *)
(* wallet receives anon outputs.                                           *)
(***************************************************************************)
InitBatch ==
    /\ InitVaultConf({}, FALSE, FALSE, [InitConfig EXCEPT !.anon_reward_address = "addr"])
    /\ InitRewardVars

NextBatch ==
    \/ \E count \in DepositCounts, amount \in DepositAmounts, safe \in BOOLEAN :
           wallet_receive(count, amount, safe)
    \/ \E addr_info \in AddressInfos, fee_rate \in FeeRates :
           do_reward_payout(addr_info, fee_rate)

SpecBatch == InitBatch /\ [][NextBatch]_vars

(***************************************************************************)
(* What a run of send_ghost or zap_ghost did, read off the wallet: the     *)
(* committed calls, the outputs that were spendable, the sum of the        *)
(* amounts of a set of outputs.                                            *)
(***************************************************************************)
Committed(calls) == { i \in 1..Len(calls) : ~calls[i].test_fee }

InputSet(call) == { call.inputs[j] : j \in 1..Len(call.inputs) }

SafeOutputs(unspent_array) ==
    { unspent_array[i].txid : i \in { k \in 1..Len(unspent_array) : unspent_array[k].safe } }

RECURSIVE AmountOfOutputs(_, _, _, _)
AmountOfOutputs(unspent_array, outputs, first, last) ==
    IF first > last THEN 0
    ELSE IF first = last
    THEN (IF unspent_array[first].txid \in outputs THEN unspent_array[first].amount ELSE 0)
    ELSE AmountOfOutputs(unspent_array, outputs, first, (first + last) \div 2)
         + AmountOfOutputs(unspent_array, outputs, (first + last) \div 2 + 1, last)

PayoutRuns ==
    /\ daemon_ready(daemon_state)
    /\ anon_trusted(wallet.unspent) >= gv_config.min_reward_payout
    /\ gv_config.anon_reward_address # "None"

Partitioned(unspent_array, calls) ==
    /\ Committed(calls) # {}
    /\ \A txid \in SafeOutputs(unspent_array) :
           Cardinality({ i \in Committed(calls) : txid \in InputSet(calls[i]) }) = 1
    /\ \A i \in Committed(calls) :
           /\ InputSet(calls[i]) \subseteq SafeOutputs(unspent_array)
           /\ Cardinality(InputSet(calls[i])) = Len(calls[i].inputs)
           /\ calls[i].amount =
                  AmountOfOutputs(unspent_array, InputSet(calls[i]), 1, Len(unspent_array))

C30_FeeCeiling ==
    [][ (last_call'.op = "do_reward_payout" /\ PayoutRuns)
        => \A i \in Committed(wallet'.calls) :
               /\ i > 1
               /\ wallet'.calls[i - 1].test_fee
               /\ wallet'.calls[i - 1].inputs = wallet'.calls[i].inputs
               /\ wallet'.calls[i].fee <= MAX_TX_FEES ]_vars

(***************************************************************************)
(* GvCLIServer::new_block, in the two steps between which the handler of   *)
(* another request runs (run_server spawns a task for every request): it   *)
(* compares the hash, fetches the block and reads cycle; then it writes    *)
(* the checkpoint, runs the passes and sets best_block, best_block_hash,   *)
(* synced and the cycle it has computed.  gv_server.new_block holds the    *)
(* handlers between their steps.                                           *)
(***************************************************************************)
MaxNewBlocks == 2

new_block_begin(height) ==
    /\ gv_server.up /\ node.up
    /\ height = node.blocks
    /\ is_new_hash(block_hash_of(height), daemon_state.best_block_hash)
    /\ Cardinality(gv_server.new_block) < MaxNewBlocks
    /\ \A h \in gv_server.new_block : h.new_block # block_hash_of(height)
    /\ gv_server' = [gv_server EXCEPT !.new_block =
                        @ \cup { [ new_block |-> block_hash_of(height),
                                   cycle |-> daemon_state.cycle + 1 ] }]
    /\ last_call' = NoCall
    /\ UNCHANGED <<db, daemon_state, node, sched, reward_vars, client_vars>>

new_block_finish(h, is_syncing) ==
    LET handled(r) ==
            /\ db' = r.db
            /\ daemon_state' = IF r.call.panic THEN r.daemon_state
                               ELSE [r.daemon_state EXCEPT !.cycle = h.cycle]
            /\ last_call' = r.call
    IN /\ gv_server.up /\ node.up
       /\ h \in gv_server.new_block
       /\ gv_server' = [gv_server EXCEPT !.new_block = @ \ {h}]
       /\ handled(new_block_handler(db, daemon_state, node, gv_server.tg_bot_active,
                                    h.new_block, is_syncing))
       /\ UNCHANGED <<node, sched, reward_vars, client_vars>>

(***************************************************************************)
(* SpecCycle: the new_block handlers of a vault whose node connects the    *)
(* blocks of a stake.                                                      *)
(***************************************************************************)
InitCycle ==
    /\ InitVault({"s1"}, FALSE)
    /\ InitRewardVars

NewBlockHandlers ==
    [ new_block : { block_hash_of(height) : height \in Tips },
      cycle : 1..(Cardinality(Tips) + 1) ]

NextCycle ==
    \/ node_connect_block
    \/ \E height \in Tips : new_block_begin(height)
    \/ \E h \in NewBlockHandlers, is_syncing \in BOOLEAN : new_block_finish(h, is_syncing)

SpecCycle == InitCycle /\ [][NextCycle]_vars

(***************************************************************************)
(* C31 as stated: cycle never decreases, and every new_block call that     *)
(* processes a new hash increases it by exactly one.                       *)
(***************************************************************************)
C31_CycleMonotonic ==
    [][ /\ daemon_state'.cycle >= daemon_state.cycle
        /\ (last_call'.op = "new_block" /\ last_call'.checkpoint)
               => daemon_state'.cycle = daemon_state.cycle + 1 ]_vars

(***************************************************************************)
(* GvCLIServer::check_chain_task, one round of its loop; good_chain is     *)
(* whether the remote hash at best_block equals best_block_hash.           *)
(***************************************************************************)
BadChainDetected == TgMsg("online", "Bad Chain Detected!", "None", "None")

alert_due_at_4(bad_chain_count) == bad_chain_count >= 4

alert_due(bad_chain_count) == bad_chain_count >= 5

check_chain_round(d, ds, tg_bot_active, chk, good_chain) ==
    LET counted(bad_chain_count, sleep_time) ==
            IF alert_due(bad_chain_count)
            THEN [ db |-> IF tg_bot_active THEN set_tg_bot_queue(d, TimeKey, BadChainDetected)
                          ELSE d,
                   daemon_state |-> [ds EXCEPT !.good_chain = good_chain],
                   check_chain |-> [bad_chain_count |-> 0, sleep_time |-> sleep_time] ]
            ELSE [ db |-> d,
                   daemon_state |-> [ds EXCEPT !.good_chain = good_chain],
                   check_chain |-> [bad_chain_count |-> bad_chain_count,
                                    sleep_time |-> sleep_time] ]
    IN IF ~ds.online
       THEN [ db |-> d, daemon_state |-> ds,
              check_chain |-> [chk EXCEPT !.sleep_time = check_seconds] ]
       ELSE IF ~good_chain THEN counted(chk.bad_chain_count + 1, 60 * 2)
       ELSE counted(0, check_seconds)

check_chain_task(good_chain) ==
    /\ gv_server.up
    /\ LET checked(r) ==
               /\ db' = r.db
               /\ daemon_state' = r.daemon_state
               /\ gv_server' = [gv_server EXCEPT !.check_chain = r.check_chain]
       IN checked(check_chain_round(db, daemon_state, gv_server.tg_bot_active,
                                    gv_server.check_chain, good_chain))
    /\ last_call' = Call("check_chain_task", IF good_chain THEN "match" ELSE "mismatch",
                         FALSE, FALSE, FALSE, 0, FALSE)
    /\ UNCHANGED <<node, sched, reward_vars, client_vars>>

(***************************************************************************)
(* SpecChain: the chain monitor of a vault, with daemon updates taking     *)
(* the daemon offline and online, and the bot sending what is queued.      *)
(***************************************************************************)
InitChain ==
    /\ \E tg_bot_active \in BOOLEAN : InitVault({}, tg_bot_active)
    /\ InitRewardVars

NextChain ==
    \/ \E good_chain \in BOOLEAN : check_chain_task(good_chain)
    \/ background_task(TimeKey)
    \/ do_update_start
    \/ do_update_download_failed
    \/ do_update_stop_daemon
    \/ do_update_finish

SpecChain == InitChain /\ [][NextChain]_vars

(***************************************************************************)
(* The parts of C32 that do not concern the alert: a round while offline   *)
(* changes nothing but the sleep; a round while online sets good_chain, a  *)
(* mismatch makes the next round come after 2 minutes, a match after 5     *)
(* and with the count at 0.                                                *)
(***************************************************************************)
ChainRound ==
    IF ~daemon_state.online
    THEN /\ daemon_state' = daemon_state
         /\ db' = db
         /\ gv_server'.check_chain.bad_chain_count = gv_server.check_chain.bad_chain_count
         /\ gv_server'.check_chain.sleep_time = 60 * 5
    ELSE /\ daemon_state' = [daemon_state EXCEPT !.good_chain = (last_call'.arg = "match")]
         /\ IF last_call'.arg = "match"
            THEN /\ gv_server'.check_chain = [bad_chain_count |-> 0, sleep_time |-> 60 * 5]
                 /\ db' = db
            ELSE /\ gv_server'.check_chain.sleep_time = 60 * 2
                 /\ gv_server.check_chain.bad_chain_count + 1 < 5
                        => /\ gv_server'.check_chain.bad_chain_count =
                                  gv_server.check_chain.bad_chain_count + 1
                           /\ db' = db

FifthMismatch ==
    /\ daemon_state.online
    /\ last_call'.arg = "mismatch"
    /\ gv_server.check_chain.bad_chain_count + 1 = 5

(***************************************************************************)
(* C32, amended: as C32, the alert being queued at the fifth consecutive   *)
(* mismatch when the Telegram bot is active and nothing being queued when  *)
(* it is not; the count is reset to 0 in both cases.                       *)
(***************************************************************************)
C32_ChainMonitor ==
    [][ last_call'.op = "check_chain_task"
        => /\ ChainRound
           /\ FifthMismatch
                  => /\ gv_server'.check_chain.bad_chain_count = 0
                     /\ IF gv_server.tg_bot_active
                        THEN db' = set_tg_bot_queue(db, TimeKey, BadChainDetected)
                        ELSE db' = db ]_vars

C32_Witness ==
    /\ last_call.op = "check_chain_task"
    /\ last_call.arg = "mismatch"
    /\ gv_server.check_chain = [bad_chain_count |-> 0, sleep_time |-> 60 * 2]
    /\ TimeKey \in DOMAIN db.tg_bot_queue
    /\ db.tg_bot_queue[TimeKey] = BadChainDetected
    /\ ~daemon_state.good_chain

(***************************************************************************)
(* C32 as stated: the alert is queued at every fifth consecutive mismatch. *)
(***************************************************************************)
C32_AlertAtFive ==
    [][ (last_call'.op = "check_chain_task" /\ FifthMismatch)
        => /\ TimeKey \in DOMAIN db'.tg_bot_queue
           /\ db'.tg_bot_queue[TimeKey] = BadChainDetected ]_vars

(***************************************************************************)
(* GvCLIServer::new_remote_block: the block the remote explorer reports.   *)
(* Its hash is the one of the node's chain at that height or another.      *)
(***************************************************************************)
RemoteHashes == { block_hash_of(height) : height \in Tips } \cup {"fork"}

is_new_remote_hash_always(block_hash, remote_best_block_hash) == TRUE

is_new_remote_hash(block_hash, remote_best_block_hash) ==
    block_hash # remote_best_block_hash

new_remote_block(block_hash, height) ==
    /\ gv_server.up
    /\ daemon_state' =
           IF is_new_remote_hash(block_hash, daemon_state.remote_best_block_hash)
           THEN [daemon_state EXCEPT !.remote_best_block = height,
                                     !.remote_best_block_hash = block_hash]
           ELSE daemon_state
    /\ last_call' = Call("new_remote_block", block_hash, FALSE, FALSE, FALSE, 0, FALSE)
    /\ UNCHANGED <<db, node, gv_server, sched, reward_vars, client_vars>>

(***************************************************************************)
(* SpecRemote: the vault next to a node that stakes once, with the blocks  *)
(* of the remote explorer.                                                 *)
(***************************************************************************)
InitRemote ==
    /\ InitVault({"s1"}, FALSE)
    /\ InitRewardVars

NextRemote ==
    \/ node_connect_block
    \/ \E txid \in Txids : new_wallet_tx(txid)
    \/ \E height \in Tips, is_syncing \in BOOLEAN : new_block(height, is_syncing)
    \/ \E block_hash \in RemoteHashes, height \in Tips : new_remote_block(block_hash, height)

SpecRemote == InitRemote /\ [][NextRemote]_vars

(***************************************************************************)
(* C33: new_remote_block with the current remote_best_block_hash changes   *)
(* nothing; with another hash it changes remote_best_block and             *)
(* remote_best_block_hash and nothing else, in memory or in the database.  *)
(***************************************************************************)
C33_RemoteBlockFrame ==
    [][ last_call'.op = "new_remote_block"
        => /\ db' = db
           /\ IF last_call'.arg = daemon_state.remote_best_block_hash
              THEN daemon_state' = daemon_state
              ELSE /\ daemon_state'.remote_best_block_hash = last_call'.arg
                   /\ \A field \in DOMAIN daemon_state \
                                     {"remote_best_block", "remote_best_block_hash"} :
                          daemon_state'[field] = daemon_state[field] ]_vars

C33_Witness ==
    /\ last_call.op = "new_remote_block"
    /\ last_call.arg = "fork"
    /\ daemon_state.remote_best_block_hash = "fork"
    /\ daemon_state.remote_best_block > StartHeight
    /\ daemon_state.best_block_hash # "fork"
    /\ daemon_state.cycle > 0

(***************************************************************************)
(* GvCLIServer::new_wallet_tx with the wallet name of the event: the       *)
(* handler returns at once for a wallet that is not rpc_wallet.            *)
(***************************************************************************)
WalletNames == {DEFAULT_COLD_WALLET, DEFAULT_HOT_WALLET}

is_rpc_wallet_always(wallet_name, rpc_wallet) == TRUE

is_rpc_wallet(wallet_name, rpc_wallet) == wallet_name = rpc_wallet

new_wallet_tx_of(txid, wallet_name) ==
    LET handled(r) ==
            /\ db' = r.db
            /\ last_call' = Call("new_wallet_tx", <<txid, wallet_name>>,
                                 FALSE, FALSE, FALSE, 0, r.panic)
    IN /\ gv_server.up /\ node.up
       /\ handled(IF is_rpc_wallet(wallet_name, gv_config.rpc_wallet)
                  THEN new_wallet_tx_handler(db, node, gv_server.tg_bot_active, txid)
                  ELSE [db |-> db, panic |-> FALSE])
       /\ Bounded(db')
       /\ UNCHANGED <<daemon_state, node, gv_server, reward_vars, client_vars, sched>>

(***************************************************************************)
(* SpecWallets: the vault next to a node with a stake and a deposit, whose *)
(* events name the cold wallet of the vault or the hot wallet.             *)
(***************************************************************************)
InitWallets ==
    /\ InitVault({"s1", "z1"}, TRUE)
    /\ InitRewardVars

NextWallets ==
    \/ node_connect_block
    \/ \E txid \in Txids, wallet_name \in WalletNames : new_wallet_tx_of(txid, wallet_name)
    \/ \E height \in Tips, is_syncing \in BOOLEAN : new_block(height, is_syncing)

SpecWallets == InitWallets /\ [][NextWallets]_vars

(***************************************************************************)
(* C34: new_wallet_tx for a wallet other than rpc_wallet changes no        *)
(* record of the database, no notification and no in-memory state, and     *)
(* does not fail on the node's answer.                                     *)
(***************************************************************************)
C34_WalletIsolation ==
    [][ (last_call'.op = "new_wallet_tx" /\ last_call'.arg[2] # gv_config.rpc_wallet)
        => /\ db' = db
           /\ daemon_state' = daemon_state
           /\ node' = node
           /\ wallet' = wallet
           /\ ~last_call'.panic ]_vars

C34_Witness ==
    /\ last_call.op = "new_wallet_tx"
    /\ last_call.arg = <<"z1", DEFAULT_HOT_WALLET>>
    /\ in_wallet(node, "z1")
    /\ "z1" \notin DOMAIN db.zap_status_db
    /\ "s1" \in DOMAIN db.new_stake_status

(***************************************************************************)
(* The start of the process.  run_init resets the readiness record and     *)
(* starts the server: GvCLIServer::new builds the DaemonState, runs        *)
(* cleanup_missing_tx and spawns listen_zmq and task_runner, which writes  *)
(* the missing tasks and spawns wait_rpc_server_ready.                     *)
(***************************************************************************)
run_init(is_syncing) ==
    LET started(r) ==
            /\ db' = IF r.panic THEN r.db
                     ELSE task_runner_init(r.db, gv_config, sched.now, 1)
            /\ gv_server' = [gv_server EXCEPT !.up = ~r.panic, !.startup = Starting,
                                              !.do_update = "idle",
                                              !.do_force_resync = "idle",
                                              !.import_wallet = "idle",
                                              !.handle_daemon_offline = "idle"]
            /\ daemon_state' = NewDaemonState(node, is_syncing /\ ~r.panic)
            /\ last_call' = Call("run_init", "", FALSE, FALSE, FALSE, 0, r.panic)
    IN /\ ~gv_server.up /\ node.up
       /\ started(cleanup_missing_tx(
                      [db EXCEPT !.server_ready_db = EmptyDb.server_ready_db], node))
       /\ Bounded(db')
       /\ UNCHANGED <<node, sched, reward_vars, client_vars>>

(***************************************************************************)
(* wait_rpc_server_ready: the RPC server accepts its connection and the    *)
(* readiness record is set.                                                *)
(***************************************************************************)
wait_rpc_server_ready ==
    /\ gv_server.up
    /\ gv_server.startup.wait_rpc_server_ready = "connecting"
    /\ db' = [db EXCEPT !.server_ready_db = ServerReady]
    /\ gv_server' = [gv_server EXCEPT !.startup.wait_rpc_server_ready = "done"]
    /\ last_call' = NoCall
    /\ UNCHANGED <<daemon_state, node, sched, reward_vars, client_vars>>

server_is_ready_always(server_ready) == TRUE

server_is_ready(server_ready) == server_ready.ready

(***************************************************************************)
(* listen_zmq leaves its wait for the readiness record.                    *)
(***************************************************************************)
listen_zmq_ready ==
    /\ gv_server.up
    /\ gv_server.startup.listen_zmq = "waiting"
    /\ server_is_ready(db.server_ready_db)
    /\ gv_server' = [gv_server EXCEPT !.startup.listen_zmq = "forwarding"]
    /\ last_call' = NoCall
    /\ UNCHANGED <<db, daemon_state, node, sched, reward_vars, client_vars>>

(***************************************************************************)
(* task_runner leaves its wait for the readiness record and calls          *)
(* start_server_tasks.                                                     *)
(***************************************************************************)
task_runner_ready ==
    /\ gv_server.up
    /\ gv_server.startup.task_runner = "waiting"
    /\ server_is_ready(db.server_ready_db)
    /\ gv_server' = [gv_server EXCEPT !.startup.task_runner = "loop",
                                      !.startup.start_server_tasks = @ + 1]
    /\ last_call' = Call("start_server_tasks", "", FALSE, FALSE, FALSE, 0, FALSE)
    /\ UNCHANGED <<db, daemon_state, node, sched, reward_vars, client_vars>>

listen_zmq_block(height, is_syncing) ==
    /\ gv_server.startup.listen_zmq = "forwarding"
    /\ new_block(height, is_syncing)

listen_zmq_wallet_tx(txid) ==
    /\ gv_server.startup.listen_zmq = "forwarding"
    /\ new_wallet_tx(txid)

task_runner_round ==
    /\ gv_server.startup.task_runner = "loop"
    /\ task_runner_loop

(***************************************************************************)
(* SpecStartup: a vault that ends and is started again, next to a node     *)
(* that stakes once.                                                       *)
(***************************************************************************)
InitStartup ==
    /\ InitVault({"s1"}, FALSE)
    /\ InitRewardVars

NextStartup ==
    \/ vault_exit
    \/ \E is_syncing \in BOOLEAN : run_init(is_syncing)
    \/ wait_rpc_server_ready
    \/ listen_zmq_ready
    \/ task_runner_ready
    \/ node_connect_block
    \/ \E height \in Tips, is_syncing \in BOOLEAN : listen_zmq_block(height, is_syncing)
    \/ \E txid \in Txids : listen_zmq_wallet_tx(txid)
    \/ task_runner_round

SpecStartup == InitStartup /\ [][NextStartup]_vars

MaintenanceRunning ==
    \/ gv_server.do_update # "idle"
    \/ gv_server.do_force_resync # "idle"
    \/ gv_server.import_wallet # "idle"

C36_NotReadyUnderMaintenance ==
    MaintenanceRunning => ~db.server_ready_db.daemon_ready

(***************************************************************************)
(* The configuration lock.  A request joins the queue; the request at the  *)
(* head of the queue is granted when the guards that are held allow it: a  *)
(* read guard when no write guard is held, a write guard when no guard is  *)
(* held.                                                                   *)
(***************************************************************************)
lock_request(lock, handler, mode, then) ==
    [lock EXCEPT !.queue = Append(@, [handler |-> handler, mode |-> mode, then |-> then]),
                 !.at[handler] = "waiting"]

can_grant(lock, mode) ==
    /\ lock.writer = "None"
    /\ mode = "write" => \A h \in ConfigHandlers : lock.readers[h] = 0

lock_grant(lock, request) ==
    [lock EXCEPT !.queue = Tail(@),
                 !.at[request.handler] = request.then,
                 !.readers[request.handler] = IF request.mode = "read" THEN @ + 1 ELSE @,
                 !.writer = IF request.mode = "write" THEN request.handler ELSE @]

holds_config(lock, handler) ==
    lock.writer = handler \/ lock.readers[handler] > 0

lock_returned(lock, handler) ==
    [lock EXCEPT !.readers[handler] = 0,
                 !.writer = IF @ = handler THEN "None" ELSE @,
                 !.at[handler] = "idle"]

config_step(op, lock) ==
    /\ gv_server.up
    /\ gv_server' = [gv_server EXCEPT !.config = lock]
    /\ last_call' = Call(op, "", FALSE, FALSE, FALSE, 0, FALSE)
    /\ UNCHANGED <<db, daemon_state, sched, reward_vars, reply, bot_runner, wallet>>

config_lock_grant ==
    /\ gv_server.config.queue # <<>>
    /\ can_grant(gv_server.config, Head(gv_server.config.queue).mode)
    /\ config_step("config_lock_grant", lock_grant(gv_server.config, Head(gv_server.config.queue)))
    /\ UNCHANGED <<node, gv_config>>

(***************************************************************************)
(* set_reward_mode with mode ANON: the write guard is taken first and held *)
(* to the end.  get_address_info is answered, and the address is stored,   *)
(* or the connection is refused and parse_error_msg calls start_daemon.    *)
(***************************************************************************)
set_reward_mode_write ==
    /\ gv_server.config.at["set_reward_mode"] = "idle"
    /\ config_step("set_reward_mode", lock_request(gv_server.config, "set_reward_mode", "write",
                                "get_address_info"))
    /\ UNCHANGED <<node, gv_config>>

set_reward_mode_get_address_info ==
    /\ gv_server.config.at["set_reward_mode"] = "get_address_info"
    /\ config_step("get_address_info", IF node.up THEN lock_returned(gv_server.config, "set_reward_mode")
                   ELSE IF parse_error_msg("Connection refused") = "start_daemon"
                   THEN lock_request(gv_server.config, "set_reward_mode", "read",
                                     "start_daemon")
                   ELSE lock_returned(gv_server.config, "set_reward_mode"))
    /\ gv_config' = IF node.up THEN [gv_config EXCEPT !.anon_reward_address = "addr"]
                    ELSE gv_config
    /\ UNCHANGED node

(***************************************************************************)
(* wait_for_daemon_startup of handle_daemon_offline: call_status is        *)
(* refused and parse_error_msg calls start_daemon, no guard being held.    *)
(***************************************************************************)
wait_for_daemon_startup_refused ==
    /\ gv_server.config.at["handle_daemon_offline"] = "idle"
    /\ ~node.up
    /\ parse_error_msg("Connection refused") = "start_daemon"
    /\ config_step("wait_for_daemon_startup", lock_request(gv_server.config, "handle_daemon_offline", "read",
                                "start_daemon"))
    /\ UNCHANGED <<node, gv_config>>

(***************************************************************************)
(* DaemonHelper::start_daemon with its read guard: the paths are read, the *)
(* guard is dropped and the daemon is started; the caller gets the error   *)
(* of its call back and returns.                                           *)
(***************************************************************************)
start_daemon_with_config(handler) ==
    /\ gv_server.config.at[handler] = "start_daemon"
    /\ config_step("start_daemon", lock_returned(gv_server.config, handler))
    /\ node' = [node EXCEPT !.up = TRUE]
    /\ UNCHANGED gv_config

(***************************************************************************)
(* DaemonHelper::check_wallets from its second read guard on: set_rpcurl   *)
(* takes a read guard of its own; both are dropped before the function     *)
(* goes on.                                                                *)
(***************************************************************************)
check_wallets_read ==
    /\ gv_server.config.at["check_wallets"] = "idle"
    /\ config_step("check_wallets", lock_request(gv_server.config, "check_wallets", "read", "set_rpcurl"))
    /\ UNCHANGED <<node, gv_config>>

check_wallets_set_rpcurl ==
    /\ gv_server.config.at["check_wallets"] = "set_rpcurl"
    /\ config_step("set_rpcurl", lock_request(gv_server.config, "check_wallets", "read", "rpcurl"))
    /\ UNCHANGED <<node, gv_config>>

check_wallets_drop ==
    /\ gv_server.config.at["check_wallets"] = "rpcurl"
    /\ config_step("check_wallets_drop", lock_returned(gv_server.config, "check_wallets"))
    /\ UNCHANGED <<node, gv_config>>

(***************************************************************************)
(* set_timezone with a valid timezone: a write guard and nothing else.     *)
(***************************************************************************)
set_timezone_write ==
    /\ gv_server.config.at["set_timezone"] = "idle"
    /\ config_step("set_timezone", lock_request(gv_server.config, "set_timezone", "write",
                                "update_gv_config"))
    /\ UNCHANGED <<node, gv_config>>

set_timezone_update ==
    /\ gv_server.config.at["set_timezone"] = "update_gv_config"
    /\ config_step("update_gv_config", lock_returned(gv_server.config, "set_timezone"))
    /\ UNCHANGED <<node, gv_config>>

(***************************************************************************)
(* SpecConfig: the handlers of the configuration lock next to a daemon     *)
(* that stops and starts.  A request that can be granted is granted and a  *)
(* handler that holds its guards goes on.                                  *)
(***************************************************************************)
InitConfigLock ==
    /\ InitVault({}, FALSE)
    /\ InitRewardVars

HandlerSteps ==
    \/ set_reward_mode_get_address_info
    \/ \E handler \in ConfigHandlers : start_daemon_with_config(handler)
    \/ check_wallets_set_rpcurl
    \/ check_wallets_drop
    \/ set_timezone_update

NextConfig ==
    \/ node_stop
    \/ node_start
    \/ config_lock_grant
    \/ set_reward_mode_write
    \/ set_reward_mode_get_address_info
    \/ wait_for_daemon_startup_refused
    \/ \E handler \in ConfigHandlers : start_daemon_with_config(handler)
    \/ check_wallets_read
    \/ check_wallets_set_rpcurl
    \/ check_wallets_drop
    \/ set_timezone_write
    \/ set_timezone_update

SpecConfig ==
    /\ InitConfigLock
    /\ [][NextConfig]_vars
    /\ WF_vars(config_lock_grant)
    /\ WF_vars(HandlerSteps)

(***************************************************************************)
(* C37: no handler requests the configuration lock while it holds a guard  *)
(* of it, on the paths through start_daemon and check_wallets included.    *)
(***************************************************************************)
C37_NoRequestWhileHolding ==
    \A i \in DOMAIN gv_server.config.queue :
        ~holds_config(gv_server.config, gv_server.config.queue[i].handler)

(***************************************************************************)
(* What the claim concludes: a handler that waits for the write guard      *)
(* gets it.                                                                *)
(***************************************************************************)
C37_WriterAcquires ==
    \A handler \in {"set_reward_mode", "set_timezone"} :
        (gv_server.config.at[handler] = "waiting" /\ gv_server.config.writer # handler)
            ~> (gv_server.config.writer = handler)

(***************************************************************************)
(* SpecZapAmount: new_wallet_tx for a transaction of the vault's wallet    *)
(* whose gettransaction answer lists up to MaxDetails entries, received or *)
(* sent, watch-only or not, of one or two coins, at a number of            *)
(* confirmations below or at the maturity of a deposit.                    *)
(***************************************************************************)
MaxDetails == 2

DetailEntries ==
    [ category : {"receive", "send"}, involvesWatchonly : BOOLEAN, amount : {1, 2} ]

DetailLists == UNION { [1..n -> DetailEntries] : n \in 1..MaxDetails }

new_wallet_tx_answer(txid, tx_io, confirmations) ==
    LET handled(r) ==
            /\ db' = r.db
            /\ last_call' = Call("new_wallet_tx", tx_io, FALSE, FALSE, FALSE, 0, r.panic)
    IN /\ gv_server.up /\ node.up
       /\ handled(new_wallet_tx_details(db, gv_server.tg_bot_active, txid,
                      [ ok |-> TRUE, txid |-> txid, confirmations |-> confirmations,
                        details |-> tx_io ]))
       /\ UNCHANGED <<daemon_state, node, gv_server, sched, reward_vars, client_vars>>

InitZapAmount ==
    /\ \E tg_bot_active \in BOOLEAN : InitVault({}, tg_bot_active)
    /\ InitRewardVars

NextZapAmount ==
    \/ \E txid \in {"z1"}, tx_io \in DetailLists, confirmations \in {0, 224, 225} :
           new_wallet_tx_answer(txid, tx_io, confirmations)
    \/ \E key \in {"z1"} : background_task(key)

SpecZapAmount == InitZapAmount /\ [][NextZapAmount]_vars

RECURSIVE received_sat(_, _)
received_sat(tx_io, i) ==
    IF i > Len(tx_io) THEN 0
    ELSE received_sat(tx_io, i + 1)
           + ( IF tx_io[i].involvesWatchonly /\ tx_io[i].category = "receive"
               THEN convert_to_sat(tx_io[i].amount) ELSE 0 )

(***************************************************************************)
(* C38: the amount of a zap record that new_wallet_tx creates is the sum   *)
(* of the amounts, in satoshi, of the entries of the transaction that are  *)
(* received and watch-only, however many there are.                        *)
(***************************************************************************)
C38_ZapAmountIsSum ==
    [][ ( /\ last_call'.op = "new_wallet_tx"
          /\ "z1" \notin DOMAIN db.zap_status_db
          /\ "z1" \in DOMAIN db'.zap_status_db )
        => db'.zap_status_db["z1"].amount = received_sat(last_call'.arg, 1) ]_vars

(***************************************************************************)
(* SpecRewardRange: get_block_reward applied to stakes whose outputs       *)
(* include a payment to the development fund of more than the coins the    *)
(* stake creates.                                                          *)
(***************************************************************************)
RangeVoutPool ==
    { Vout("data", <<>>, FALSE, 0, FALSE, TRUE),
      Vout("data", <<>>, FALSE, 0, FALSE, FALSE),
      Vout("standard", <<KernelAddr>>, TRUE, 40003, FALSE, FALSE),
      Vout("standard", <<OtherAddr>>, TRUE, 40003, TRUE, FALSE),
      Vout("standard", <<KernelAddr>>, TRUE, 7, FALSE, FALSE),
      Vout("standard", <<DevAddr>>, TRUE, 7, FALSE, FALSE),
      Vout("standard", <<DevAddr>>, TRUE, 1, FALSE, FALSE) }

InitRewardRange ==
    /\ rpc_tx \in [vin : SeqsUpTo(VinPool, MaxVin), vout : SeqsUpTo(RangeVoutPool, MaxVout)]
    /\ rpc_height \in Heights
    /\ block_reward = NoReward
    /\ InitVault({}, FALSE)

SpecRewardRange == InitRewardRange /\ [][NextReward]_vars

(***************************************************************************)
(* A stake spends its inputs and creates coins: the outputs that are       *)
(* counted are worth more than its inputs, all of which are resolved.      *)
(***************************************************************************)
CreatesCoins(tx) ==
    /\ tx.vin # <<>>
    /\ \A i \in DOMAIN tx.vin : tx.vin[i].prev_ok
    /\ CountedOutputTotal(tx) > ResolvedInputTotal(tx)

SecondaryExcluded(tx, height, stake_kernel) ==
    /\ SecondaryEligible(tx, height)
    /\ Len(tx.vout) >= 3
    /\ ~vout_counted(At(tx.vout, agvr_vout(OutputAddress(tx.vout[2]), stake_kernel)))

(***************************************************************************)
(* C39: when get_block_reward reaches its subtraction the counted outputs  *)
(* are at least the inputs plus the secondary reward, so that stake_reward *)
(* does not underflow; stated here for the stakes whose secondary output   *)
(* is not counted.                                                         *)
(***************************************************************************)
C39_NoUnderflow ==
    ( /\ block_reward.status = "ok"
      /\ CreatesCoins(rpc_tx)
      /\ SecondaryExcluded(rpc_tx, rpc_height, block_reward.stake_kernel) )
        => CountedOutputTotal(rpc_tx)
               >= ResolvedInputTotal(rpc_tx) + block_reward.agvr_reward

====
